---- MODULE Spec2Model ----
(***************************************************************************)
(* Request pipeline of terminal-ai: the response cache (internal/ai/       *)
(* cache.go), the rate limiter, the retry loop and the client lifecycle    *)
(* (OpenAIClient, unnamed/part_005) and the stream handler                 *)
(* (unnamed/part_004).                                                     *)
(*                                                                         *)
(* Time is an integer clock `now`; one tick is the unit of every duration  *)
(* (a second for the limiter's interval and the backoff; the limiter's     *)
(* window, a minute in the source, is Minute ticks).  Strings whose text   *)
(* matters are kept; a response body is a name plus its length.  Cache     *)
(* keys are sequences of strings so that prefixes can be taken; errors     *)
(* are their texts, "nil" for no error.                                    *)
(***************************************************************************)
EXTENDS Integers, Sequences, FiniteSets, TLC

VARIABLES
    now,        \* wall clock, time.Now()
    cache,      \* InMemoryCache: entries, lruList, currentSize, stats, ...
    last,       \* the last cache call and what it returned (observation)
    recency,    \* keys by last use (successful Get, or Set), most recent first
    lastSet,    \* per key in the cache: the Set that stored it (observation)
    ops,        \* number of cache calls made so far
    rl,         \* RateLimiter
    thr,        \* the calling goroutines: where each is, its context, its result
    waitObs,    \* the successful returns of Wait (observation)
    client,     \* OpenAIClient: closed, mu, retryConfig
    http,       \* the HTTP client under it: requests issued, idle connections closed
    boff,       \* the last calculateBackoff call and its result (observation)
    callObs,    \* the client's calls: arguments as passed, last stored answer (observation)
    keyObs,     \* two inputs of GenerateChatKey and their keys (observation)
    metrics,    \* MetricsCollector: cache counters, apiCalls, durations
    stream      \* the stream HandleStream made: source, channel, producer, consumer

cacheVars == <<cache, last, recency, lastSet, ops>>
limiterVars == <<rl, thr, waitObs>>
clientVars == <<client, http, boff, callObs, keyObs, metrics>>
vars == <<now, cache, last, recency, lastSet, ops, rl, thr, waitObs, client, http, boff,
          callObs, keyObs, metrics, stream>>

----------------------------------------------------------------------------
\* Bounds of the model.

\* the clock stops at MaxTime
MaxTime == 3
\* at most MaxOps cache calls in one run
MaxOps == 4
\* at most MaxTTLOps cache calls in one run of the expiry specification
MaxTTLOps == 3
\* cfg.MaxSize, in MB
CfgMaxSize == 1
\* cfg.TTL, the default time-to-live, in ticks
CfgTTL == 2

\* the limiter's clock stops at MaxClock
MaxClock == 8
\* each goroutine calls Wait at most MaxCalls times
MaxCalls == 2
\* RateLimiter.minInterval is drawn from 1..MaxMinInterval ticks
MaxMinInterval == 2
\* RateLimiter.requestsPerMin is drawn from 1..MaxPerMin
MaxPerMin == 2

\* the two inputs of GenerateChatKey differ by at most MaxEdits changes
MaxEdits == 2

\* calculateBackoff is called with attempts 0..MaxAttempt
MaxAttempt == 8
\* RetryConfig.InitialDelay is drawn from 1..MaxInitialDelay seconds
MaxInitialDelay == 3
\* RetryConfig.Multiplier is drawn from 1..MaxMultiplier
MaxMultiplier == 3

\* the source of a stream yields at most MaxDeltas deltas
MaxDeltas == 3
\* the buffer of the chunk channel (100 in the source, line 39), scaled down
ChunkBuffer == 2

\* cfg.MaxSize is drawn from 1..MaxCfgMaxSize MB where the configuration varies
MaxCfgMaxSize == 2

\* RecordCacheHit and RecordCacheMiss are each called at most MaxCounted times
MaxCounted == 11
\* RecordAPICall and RecordDuration are called at most MaxRecorded times together
MaxRecorded == 3
\* the durations recorded are 0..MaxDuration nanoseconds
MaxDuration == 2

\* Program constants.
\* time.Minute, the limiter's window, in ticks
Minute == 4
BytesPerMB == 1048576
ResponseOverhead == 100
MetadataOverhead == 200

----------------------------------------------------------------------------
\* Inputs.

Keys == {<<"a", "a">>, <<"a", "b">>, <<"b", "a">>}
Patterns == {<<>>, <<"a">>, <<"a", "b">>, <<"c">>}
\* ttl arguments of Set: negative, zero (use the default), one tick
TTLs == {-1, 0, 1}

\* A *Response as the cache sees it: nil, or its Content with the lengths
\* calculateEntrySize reads.
NilResponse == [nil |-> TRUE, Content |-> "", ContentLen |-> 0, ModelLen |-> 0, IDLen |-> 0]
MkResponse(c, n) == [nil |-> FALSE, Content |-> c, ContentLen |-> n, ModelLen |-> 13, IDLen |-> 0]
\* 400 KB of content, as in TestInMemoryCache_LRUEviction: two such entries fit
RespBig == MkResponse("r1", 409600)
\* an entry of exactly maxSizeBytes, and one a byte larger
RespFull == MkResponse("r2", CfgMaxSize * BytesPerMB - 313)
RespHuge == MkResponse("r3", CfgMaxSize * BytesPerMB - 312)
Responses == {NilResponse, RespBig, RespFull, RespHuge}

KeyA == <<"a", "a">>
KeyB == <<"a", "b">>
KeyC == <<"b", "a">>

\* The CacheEntry a caller hands to Set: freshly allocated by every caller of
\* the repository, PromptHash/ExpiresAt/SizeBytes not yet set, AccessCount 1.
NewEntry(resp, t) ==
    [Response |-> resp, PromptHash |-> <<>>, LastAccessedAt |-> t,
     ExpiresAt |-> 0, AccessCount |-> 1, SizeBytes |-> 0]

----------------------------------------------------------------------------
\* Sequence helpers (container/list).

\* list.Remove: the sequence without its first element equal to x
RECURSIVE RemoveFirst(_, _)
RemoveFirst(s, x) ==
    IF s = <<>> THEN <<>>
    ELSE IF Head(s) = x THEN Tail(s)
    ELSE <<Head(s)>> \o RemoveFirst(Tail(s), x)

\* list.PushFront
PushFront(s, x) == <<x>> \o s

\* list.MoveToFront of the element holding old, which now holds new
MoveToFront(s, old, new) == PushFront(RemoveFirst(s, old), new)

\* key[:len(pattern)] == pattern
HasPrefix(key, pattern) ==
    /\ Len(key) >= Len(pattern)
    /\ SubSeq(key, 1, Len(pattern)) = pattern

ListKeys(s) == [i \in 1..Len(s) |-> s[i].key]

----------------------------------------------------------------------------
\* OpenAIClient: configuration, keys, retry configuration and backoff.
\* Durations of the retry configuration are in seconds.

\* config.OpenAI: the defaults Chat applies to unset options
ConfigOpenAI == [Model |-> "m", N |-> "1"]

\* Chat's inputs: one user message, and the options that Chat reads or
\* changes (an unset Model is "", an unset N is "0")
Prompts == {"p", "q"}
Options == [Model : {"", "m"}, N : {"0", "1"}]
DefaultOptions == [Model |-> ConfigOpenAI.Model, N |-> "0"]

\* sha256 of the prompt, as a key: the hash is taken to be injective
GenerateKey(prompt) == <<"k", prompt>>

\* sha256 of the JSON of messages and options
GenerateChatKey(msgs, opts) == <<"c", msgs, opts.Model, opts.N>>

\* GenerateChatKey in full.  A string is the sequence of its bytes, "xFE"
\* and "xFF" being bytes that are no valid UTF-8; a number is its shortest
\* decimal text, "NaN" and "+Inf" being the float32 values that have none.
Texts == {<<>>, <<"a">>, <<"xFE">>, <<"xFF">>}
Floats == {"0", "0.7", "0.8", "NaN", "+Inf"}
Ints == {"0", "1"}
Stops == {<<>>, <<<<"a">>>>}

\* the fields of ChatOptions by type, and of Message
TextFields == {"Model", "User", "ReasoningEffort"}
FloatFields == {"Temperature", "TopP", "PresencePenalty", "FrequencyPenalty"}
IntFields == {"MaxTokens", "N"}
MessageFields == {"Role", "Content", "Name"}

\* the messages and options of TestInMemoryCache_GenerateChatKey
TestMessages ==
    <<[Role |-> <<"system">>, Content |-> <<"a">>, Name |-> <<>>],
      [Role |-> <<"user">>, Content |-> <<"b">>, Name |-> <<>>]>>

TestOptions ==
    [Model |-> <<"m">>, Temperature |-> "0.7", MaxTokens |-> "100", TopP |-> "0", N |-> "0",
     Stop |-> <<>>, PresencePenalty |-> "0", FrequencyPenalty |-> "0", User |-> <<>>,
     ReasoningEffort |-> <<>>]

\* encoding/json on a string: bytes that are no valid UTF-8 become U+FFFD
jsonString(s) ==
    [i \in 1..Len(s) |-> IF s[i] \in {"xFE", "xFF"} THEN "uFFFD" ELSE s[i]]

\* encoding/json on a float: NaN and the infinities are an UnsupportedValueError
unsupported(f) == f \in {"NaN", "+Inf", "-Inf"}

\* a member of a JSON object; with omitempty it is left out when empty
member(name, value, omitempty, empty) ==
    IF omitempty /\ value = empty THEN <<>> ELSE <<<<name, value>>>>

\* encoding/json on a Message, by its struct tags
jsonMessage(m) ==
    member("role", jsonString(m.Role), FALSE, <<>>)
        \o member("content", jsonString(m.Content), FALSE, <<>>)
        \o member("name", jsonString(m.Name), TRUE, <<>>)

\* encoding/json on ChatOptions, by its struct tags
jsonOptions(o) ==
    member("model", jsonString(o.Model), FALSE, <<>>)
        \o member("temperature", o.Temperature, FALSE, "0")
        \o member("max_tokens", o.MaxTokens, FALSE, "0")
        \o member("top_p", o.TopP, FALSE, "0")
        \o member("n", o.N, TRUE, "0")
        \o member("stop", [i \in 1..Len(o.Stop) |-> jsonString(o.Stop[i])], TRUE, <<>>)
        \o member("presence_penalty", o.PresencePenalty, TRUE, "0")
        \o member("frequency_penalty", o.FrequencyPenalty, TRUE, "0")
        \o member("user", jsonString(o.User), TRUE, <<>>)
        \o member("reasoning_effort", jsonString(o.ReasoningEffort), TRUE, <<>>)

\* json.Marshal(data): the document, or nothing when it returns an error
\* (which GenerateChatKey drops)
Marshal(messages, options) ==
    IF \E f \in FloatFields : unsupported(options[f]) THEN <<>>
    ELSE <<<<"Messages", [i \in 1..Len(messages) |-> jsonMessage(messages[i])]>>,
           <<"Options", jsonOptions(options)>>>>

\* sha256.Sum256 and hex.EncodeToString: the hash is taken to be injective
Sum256(data) == <<"sha256", data>>

GenerateChatKeyJSON(messages, options) == Sum256(Marshal(messages, options))

\* no edit made yet: both inputs are the test's
NoKeyObs ==
    [a |-> [messages |-> TestMessages, options |-> TestOptions],
     b |-> [messages |-> TestMessages, options |-> TestOptions],
     ka |-> GenerateChatKeyJSON(TestMessages, TestOptions),
     kb |-> GenerateChatKeyJSON(TestMessages, TestOptions),
     edits |-> 0]

\* "Apply defaults if not specified"
applyDefaults(opts) ==
    [opts EXCEPT !.Model = IF @ = "" THEN ConfigOpenAI.Model ELSE @,
                 !.N = IF @ = "0" THEN ConfigOpenAI.N ELSE @]

\* errors, by their text or status
ErrClosed == "client is closed"
ErrRateLimit == "rate limiting error: context canceled"
ErrNoChoices == "no response choices returned"
ErrCanceled == "context canceled"
ErrDeadline == "context deadline exceeded"

\* the keys the client can ask the cache for
ClientKeys ==
    {GenerateKey(p) : p \in Prompts}
        \cup {GenerateChatKey(p, o) : p \in Prompts, o \in Options}

\* the RetryConfig NewOpenAIClient sets up
DefaultRetryConfig ==
    [MaxRetries |-> 3, InitialDelay |-> 1, MaxDelay |-> 30, Multiplier |-> 2,
     RetryableHTTPCodes |-> {"429", "500", "502", "503", "504"}]

RetryConfigs ==
    [MaxRetries : {3}, InitialDelay : 1..MaxInitialDelay, MaxDelay : {10, 30},
     Multiplier : 1..MaxMultiplier,
     RetryableHTTPCodes : {DefaultRetryConfig.RetryableHTTPCodes}]

NewOpenAIClient(retryConfig, cacheEnabled) ==
    [closed |-> FALSE, mu |-> "unlocked", retryConfig |-> retryConfig,
     cacheEnabled |-> cacheEnabled]

----------------------------------------------------------------------------
\* InMemoryCache.

NewInMemoryCache(persist) ==
    [entries      |-> [k \in Keys \cup ClientKeys |-> <<>>],
     lruList      |-> <<>>,
     maxSizeBytes |-> CfgMaxSize * BytesPerMB,
     currentSize  |-> 0,
     ttl          |-> CfgTTL,
     stats        |-> [Hits |-> 0, Misses |-> 0, Evictions |-> 0],
     persistPath  |-> persist,
     mu           |-> "unlocked",
     disk         |-> <<>>,
     closes       |-> 0,
     stopCleanup  |-> FALSE,
     sweeper      |-> "select",
     tmp          |-> <<>>,
     saving       |-> "none"]

calculateEntrySize(entry) ==
    (IF entry.Response.nil THEN 0
     ELSE entry.Response.ContentLen + entry.Response.ModelLen
          + entry.Response.IDLen + ResponseOverhead)
    + Len(entry.PromptHash) + MetadataOverhead

\* the node unlinked from the list and its size taken off, the map left alone
removeElementLockedListOnly(c, node) ==
    [c EXCEPT !.lruList = RemoveFirst(c.lruList, node),
              !.currentSize = @ - node.sizeBytes]

removeElementLocked(c, node) ==
    [c EXCEPT !.lruList = RemoveFirst(c.lruList, node),
              !.entries[node.key] = <<>>,
              !.currentSize = @ - node.sizeBytes]

removeLocked(c, key) ==
    IF c.entries[key] = <<>> THEN c
    ELSE removeElementLocked(c, c.entries[key][1])

\* eviction from the front of the list, the most recently used entry
evictLRULockedFront(c) ==
    IF c.lruList = <<>> THEN c
    ELSE [removeElementLocked(c, c.lruList[1]) EXCEPT !.stats.Evictions = @ + 1]

evictLRULocked(c) ==
    IF c.lruList = <<>> THEN c
    ELSE [removeElementLocked(c, c.lruList[Len(c.lruList)])
            EXCEPT !.stats.Evictions = @ + 1]

\* the loop with the new entry's size left out of the test
RECURSIVE evictUntilFitsOld(_, _)
evictUntilFitsOld(c, entrySize) ==
    IF c.currentSize > c.maxSizeBytes /\ Len(c.lruList) > 0
    THEN evictUntilFitsOld(evictLRULocked(c), entrySize)
    ELSE c

\* the eviction loop of Set
RECURSIVE evictUntilFits(_, _)
evictUntilFits(c, entrySize) ==
    IF c.currentSize + entrySize > c.maxSizeBytes /\ Len(c.lruList) > 0
    THEN evictUntilFits(evictLRULocked(c), entrySize)
    ELSE c

\* Get without the expiry check
GetResultNoExpiry(c, key, t) ==
    IF c.entries[key] = <<>>
    THEN [c |-> [c EXCEPT !.stats.Misses = @ + 1], found |-> FALSE, entry |-> <<>>]
    ELSE LET node == c.entries[key][1]
             e2 == [node.entry EXCEPT !.LastAccessedAt = t, !.AccessCount = @ + 1]
             n2 == [node EXCEPT !.entry = e2]
         IN [c |-> [c EXCEPT !.lruList = MoveToFront(c.lruList, node, n2),
                             !.entries[key] = <<n2>>,
                             !.stats.Hits = @ + 1],
             found |-> TRUE, entry |-> <<e2>>]

\* Get: the cache afterwards, found, and the entry returned
GetResult(c, key, t) ==
    IF c.entries[key] = <<>>
    THEN [c |-> [c EXCEPT !.stats.Misses = @ + 1], found |-> FALSE, entry |-> <<>>]
    ELSE LET node == c.entries[key][1]
         IN IF t > node.entry.ExpiresAt
            THEN [c |-> [removeLocked(c, key) EXCEPT !.stats.Misses = @ + 1],
                  found |-> FALSE, entry |-> <<>>]
            ELSE LET e2 == [node.entry EXCEPT !.LastAccessedAt = t,
                                              !.AccessCount = @ + 1]
                     n2 == [node EXCEPT !.entry = e2]
                 IN [c |-> [c EXCEPT !.lruList = MoveToFront(c.lruList, node, n2),
                                     !.entries[key] = <<n2>>,
                                     !.stats.Hits = @ + 1],
                     found |-> TRUE, entry |-> <<e2>>]

\* Set removing the old entry of the key before it looks at the size
SetResultRemoveFirst(c, key, entry, ttl, t) ==
    LET entrySize == calculateEntrySize(entry)
        c1 == removeLocked(c, key)
    IN IF entrySize > c.maxSizeBytes
       THEN [c |-> c1, err |-> TRUE]
       ELSE LET c2 == evictUntilFits(c1, entrySize)
                ttl2 == IF ttl = 0 THEN c.ttl ELSE ttl
                e2 == [entry EXCEPT !.SizeBytes = entrySize,
                                    !.ExpiresAt = t + ttl2,
                                    !.PromptHash = key]
                node == [key |-> key, entry |-> e2, sizeBytes |-> entrySize]
            IN [c |-> [c2 EXCEPT !.lruList = PushFront(c2.lruList, node),
                                 !.entries[key] = <<node>>,
                                 !.currentSize = @ + entrySize],
                err |-> FALSE]

\* Set: the cache afterwards and whether an error was returned
SetResult(c, key, entry, ttl, t) ==
    LET entrySize == calculateEntrySize(entry)
    IN IF entrySize > c.maxSizeBytes
       THEN [c |-> c, err |-> TRUE]
       ELSE LET c1 == removeLocked(c, key)
                c2 == evictUntilFits(c1, entrySize)
                ttl2 == IF ttl = 0 THEN c.ttl ELSE ttl
                e2 == [entry EXCEPT !.SizeBytes = entrySize,
                                    !.ExpiresAt = t + ttl2,
                                    !.PromptHash = key]
                node == [key |-> key, entry |-> e2, sizeBytes |-> entrySize]
            IN [c |-> [c2 EXCEPT !.lruList = PushFront(c2.lruList, node),
                                 !.entries[key] = <<node>>,
                                 !.currentSize = @ + entrySize],
                err |-> FALSE]

RECURSIVE removeAll(_, _)
removeAll(c, keys) ==
    IF keys = {} THEN c
    ELSE LET k == CHOOSE x \in keys : TRUE
         IN removeAll(removeLocked(c, k), keys \ {k})

InvalidateResultAnyPrefix(c, pattern) ==
    LET hit == {k \in DOMAIN c.entries : /\ c.entries[k] /= <<>>
                                         /\ HasPrefix(k, pattern)}
    IN [c |-> removeAll(c, hit), count |-> Cardinality(hit)]

\* InvalidatePattern: the cache afterwards and the count returned
InvalidateResult(c, pattern) ==
    LET hit == {k \in DOMAIN c.entries : /\ c.entries[k] /= <<>>
                                         /\ Len(pattern) > 0
                                         /\ HasPrefix(k, pattern)}
    IN [c |-> removeAll(c, hit), count |-> Cardinality(hit)]

ClearResult(c) ==
    [c EXCEPT !.entries = [k \in DOMAIN c.entries |-> <<>>],
              !.lruList = <<>>,
              !.currentSize = 0,
              !.stats.Evictions = 0,
              !.disk = IF c.persistPath THEN <<>> ELSE @]

\* A file of the storage directory: the map that was encoded into it, and how
\* many messages of its gob stream have been written so far (the type
\* descriptor first, then every entry).
File(data, n) == [data |-> data, n |-> n]
FileLen(data) == 1 + Cardinality(DOMAIN data)
Complete(f) == f.n = FileLen(f.data)

\* Save, lines 312-316: the map that is encoded, key to *CacheEntry
encode(c) ==
    [k \in {x \in DOMAIN c.entries : c.entries[x] /= <<>>} |-> c.entries[k][1].entry]

\* Save from its first line to its last, nothing failing
saveResult(c) ==
    IF ~c.persistPath THEN c
    ELSE [c EXCEPT !.disk = <<File(encode(c), FileLen(encode(c)))>>]

\* Load's loop with the expiry test of Get: an entry is dropped only once now
\* is after its ExpiresAt
RECURSIVE loadEntriesAfter(_, _, _, _)
loadEntriesAfter(c, data, order, t) ==
    IF order = <<>> THEN c
    ELSE LET k == Head(order)
             entry == data[k]
             node == [key |-> k, entry |-> entry, sizeBytes |-> entry.SizeBytes]
         IN IF ~(t > entry.ExpiresAt)
            THEN loadEntriesAfter([c EXCEPT !.lruList = Append(@, node),
                                            !.entries[k] = <<node>>,
                                            !.currentSize = @ + entry.SizeBytes],
                                  data, Tail(order), t)
            ELSE loadEntriesAfter(c, data, Tail(order), t)

\* Load, lines 357-370: the loop over the decoded map, in the order the map
\* is iterated in
RECURSIVE loadEntries(_, _, _, _)
loadEntries(c, data, order, t) ==
    IF order = <<>> THEN c
    ELSE LET k == Head(order)
             entry == data[k]
             node == [key |-> k, entry |-> entry, sizeBytes |-> entry.SizeBytes]
         IN IF t < entry.ExpiresAt
            THEN loadEntries([c EXCEPT !.lruList = Append(@, node),
                                       !.entries[k] = <<node>>,
                                       !.currentSize = @ + entry.SizeBytes],
                             data, Tail(order), t)
            ELSE loadEntries(c, data, Tail(order), t)

\* Load: no file is no error, a file that does not decode is an error that
\* NewInMemoryCache logs; either way the cache is left as it was
Load(c, order, t) ==
    IF ~c.persistPath \/ c.disk = <<>> THEN c
    ELSE IF ~Complete(c.disk[1]) THEN c
    ELSE loadEntries(c, c.disk[1].data, order, t)

\* cleanup: the expired entries are removed; with a storage directory and
\* entries left it calls Save while holding mu, and Save's RLock on the same
\* mutex never returns: the lock stays held by the sweep.
cleanupResult(c, t) ==
    LET expiredKeys == {k \in DOMAIN c.entries :
                           /\ c.entries[k] /= <<>>
                           /\ t > c.entries[k][1].entry.ExpiresAt}
        c1 == removeAll(c, expiredKeys)
    IN IF c1.persistPath /\ c1.lruList /= <<>>
       THEN [c1 EXCEPT !.mu = "cleanup", !.sweeper = "save"]
       ELSE c1

----------------------------------------------------------------------------
\* RateLimiter.

Threads == {"t1", "t2"}

\* the zero time.Time
NoTime == -1

NewRateLimiter(minInterval, requestsPerMin, t) ==
    [mu |-> "unlocked", lastRequestTime |-> NoTime, minInterval |-> minInterval,
     requestsPerMin |-> requestsPerMin, requestCount |-> 0, windowStart |-> t]

\* a goroutine outside any call
Idle == [pc |-> "idle", fn |-> "none", now |-> 0, timer |-> 0, ctx |-> FALSE,
         pre |-> FALSE, res |-> "none", calls |-> 0, msgs |-> "", opts |-> DefaultOptions,
         attempt |-> 0, tr |-> <<>>, resp |-> NilResponse]

\* a goroutine whose call is over, with the call's result
Done(g, res) == [g EXCEPT !.pc = "w_done", !.now = 0, !.timer = 0, !.res = res]

\* "Reset window if needed": the limiter after lines 1227-1230
resetWindow(r, t) ==
    IF t - r.windowStart >= Minute
    THEN [r EXCEPT !.windowStart = t, !.requestCount = 0]
    ELSE r

\* the minimum-interval test inverted
intervalWaitInverted(r, t) ==
    IF r.lastRequestTime /= NoTime /\ t - r.lastRequestTime > r.minInterval
    THEN r.minInterval - (t - r.lastRequestTime)
    ELSE 0

\* "Enforce minimum interval": how long Wait sleeps, 0 when it does not, with
\* t the time read on entry
intervalWait(r, t) ==
    IF r.lastRequestTime /= NoTime /\ t - r.lastRequestTime < r.minInterval
    THEN r.minInterval - (t - r.lastRequestTime)
    ELSE 0

\* lines 1258-1260: the request is counted and Wait returns nil
recordRequest(r, t) ==
    [r EXCEPT !.lastRequestTime = t, !.requestCount = @ + 1, !.mu = "unlocked"]

Observe(o, t) ==
    [lastOk |-> t, gap |-> IF o.lastOk = NoTime THEN NoTime ELSE t - o.lastOk]

\* a goroutine calls Wait(ctx), the context cancelled already or not
WaitCall(self, cancelled) ==
    /\ thr[self].pc = "idle"
    /\ thr[self].calls < MaxCalls
    /\ thr' = [thr EXCEPT ![self] = [Idle EXCEPT !.pc = "w_lock", !.fn = "Wait", !.ctx = cancelled,
                                                 !.pre = cancelled,
                                                 !.calls = thr[self].calls + 1]]
    /\ UNCHANGED <<now, rl, waitObs>>

\* r.mu.Lock() is granted: lines 1221-1256 up to the first select, or to the end
WaitEnter(self) ==
    /\ thr[self].pc = "w_lock"
    /\ rl.mu = "unlocked"
    /\ LET r1 == resetWindow([rl EXCEPT !.mu = self], now)
           th == [thr EXCEPT ![self].now = now]
       IN IF r1.requestCount >= r1.requestsPerMin
          THEN /\ thr' = [th EXCEPT ![self].pc = "w_window",
                             ![self].timer = now + (Minute - (now - r1.windowStart))]
               /\ rl' = r1
               /\ UNCHANGED waitObs
          ELSE /\ thr' = IF intervalWait(r1, now) > 0
                         THEN [th EXCEPT ![self].pc = "w_interval",
                                         ![self].timer = now + intervalWait(r1, now)]
                         ELSE [th EXCEPT ![self] = Done(thr[self], "nil")]
               /\ rl' = IF intervalWait(r1, now) > 0 THEN r1 ELSE recordRequest(r1, now)
               /\ waitObs' = IF intervalWait(r1, now) > 0 THEN waitObs
                             ELSE Observe(waitObs, now)
    /\ UNCHANGED now

\* the window started again with the count left as it was
WindowElapsedKeepsCount(self) ==
    /\ thr[self].pc = "w_window"
    /\ now >= thr[self].timer
    /\ LET r1 == [rl EXCEPT !.windowStart = now]
           w == intervalWait(r1, thr[self].now)
       IN /\ thr' = IF w > 0
                    THEN [thr EXCEPT ![self].pc = "w_interval", ![self].timer = now + w]
                    ELSE [thr EXCEPT ![self] = Done(thr[self], "nil")]
          /\ rl' = IF w > 0 THEN r1 ELSE recordRequest(r1, now)
          /\ waitObs' = IF w > 0 THEN waitObs ELSE Observe(waitObs, now)
    /\ UNCHANGED now

\* the select at line 1236, case time.After(waitTime), then lines 1246-1260
WindowElapsed(self) ==
    /\ thr[self].pc = "w_window"
    /\ now >= thr[self].timer
    /\ LET r1 == [rl EXCEPT !.windowStart = now, !.requestCount = 0]
           w == intervalWait(r1, thr[self].now)
       IN /\ thr' = IF w > 0
                    THEN [thr EXCEPT ![self].pc = "w_interval", ![self].timer = now + w]
                    ELSE [thr EXCEPT ![self] = Done(thr[self], "nil")]
          /\ rl' = IF w > 0 THEN r1 ELSE recordRequest(r1, now)
          /\ waitObs' = IF w > 0 THEN waitObs ELSE Observe(waitObs, now)
    /\ UNCHANGED now

\* the select at line 1250, case time.After(waitTime), then lines 1258-1260
IntervalElapsed(self) ==
    /\ thr[self].pc = "w_interval"
    /\ now >= thr[self].timer
    /\ thr' = [thr EXCEPT ![self] = Done(thr[self], "nil")]
    /\ rl' = recordRequest(rl, now)
    /\ waitObs' = Observe(waitObs, now)
    /\ UNCHANGED now

\* the cancelled Wait counted as a request
WaitCancelledCounted(self) ==
    /\ thr[self].pc \in {"w_window", "w_interval"}
    /\ thr[self].ctx
    /\ thr' = [thr EXCEPT ![self] = Done(thr[self], "cancelled")]
    /\ rl' = recordRequest(rl, now)
    /\ UNCHANGED <<now, waitObs>>

\* either select, case ctx.Done(): return ctx.Err()
WaitCancelled(self) ==
    /\ thr[self].pc \in {"w_window", "w_interval"}
    /\ thr[self].ctx
    /\ thr' = [thr EXCEPT ![self] = Done(thr[self], "cancelled")]
    /\ rl' = [rl EXCEPT !.mu = "unlocked"]
    /\ UNCHANGED <<now, waitObs>>

\* the caller has the result
WaitReturn(self) ==
    /\ thr[self].pc = "w_done"
    /\ thr[self].fn = "Wait"
    /\ thr' = [thr EXCEPT ![self] = [Idle EXCEPT !.calls = thr[self].calls]]
    /\ UNCHANGED <<now, rl, waitObs>>

\* the caller cancels the context of the call in progress
Cancel(self) ==
    /\ thr[self].pc \notin {"idle", "w_done", "done"}
    /\ ~thr[self].ctx
    /\ thr' = [thr EXCEPT ![self].ctx = TRUE]
    /\ UNCHANGED <<now, rl, waitObs>>

ClockTick ==
    /\ now < MaxClock
    /\ now' = now + 1
    /\ UNCHANGED limiterVars

LimiterStart(minInterval, requestsPerMin) ==
    /\ rl = NewRateLimiter(minInterval, requestsPerMin, 0)
    /\ thr = [t \in Threads |-> Idle]
    /\ waitObs = [lastOk |-> NoTime, gap |-> NoTime]

----------------------------------------------------------------------------
\* OpenAIClient: the backoff.

\* math.Pow on whole numbers
RECURSIVE Pow(_, _)
Pow(x, y) == IF y = 0 THEN 1 ELSE x * Pow(x, y - 1)

\* the backoff of the attempt after the one asked for
calculateBackoffNext(c, attempt) ==
    LET delay == c.retryConfig.InitialDelay * Pow(c.retryConfig.Multiplier, attempt + 1)
    IN IF delay > c.retryConfig.MaxDelay THEN c.retryConfig.MaxDelay ELSE delay

calculateBackoff(c, attempt) ==
    LET delay == c.retryConfig.InitialDelay * Pow(c.retryConfig.Multiplier, attempt)
    IN IF delay > c.retryConfig.MaxDelay THEN c.retryConfig.MaxDelay ELSE delay

NoBackoff == [attempt |-> -1, delay |-> 0, prev |-> 0]

\* no call made yet: the options the call in progress was given, and the last
\* call that missed the cache, succeeded and stored its answer
NoCallObs == [arg |-> DefaultOptions, stored |-> <<>>]

----------------------------------------------------------------------------
\* MetricsCollector (internal/utils/metrics.go).

\* float64: a positive value is the whole number written by mant (Float64Precision
\* bits, the most significant first, the first of them 1) times 2^exp; zero has
\* no bits
Float64Precision == 53

Zero == [mant |-> <<>>, exp |-> 0]

\* the bits of a whole number, the most significant first
RECURSIVE Bits(_)
Bits(n) == IF n = 0 THEN <<>> ELSE Append(Bits(n \div 2), n % 2)

\* n bits 0
Zeros(n) == [i \in 1..n |-> 0]

\* what bits * c + carry carries out of its last j bits
RECURSIVE Carry(_, _, _, _)
Carry(bits, c, carry, j) ==
    IF j = 0 THEN carry
    ELSE (bits[Len(bits) - j + 1] * c + Carry(bits, c, carry, j - 1)) \div 2

\* the bits of bits * c + carry
MulAdd(bits, c, carry) ==
    LET n == Len(bits)
    IN  Bits(Carry(bits, c, carry, n))
            \o [i \in 1..n |-> (bits[i] * c + Carry(bits, c, carry, n - i)) % 2]

\* round to nearest, ties to even: bits (the first of them 1) times 2^exp, plus
\* something smaller than one unit of the last bit iff sticky
RoundToEven(bits, exp, sticky) ==
    LET p    == Float64Precision
        n    == Len(bits)
        keep == IF n >= p THEN SubSeq(bits, 1, p)
                ELSE bits \o Zeros(p - n)
        half == n > p /\ bits[p + 1] = 1
        rest == sticky \/ \E i \in (p + 2)..n : bits[i] = 1
        up   == half /\ (rest \/ keep[p] = 1)
        m    == IF up THEN MulAdd(keep, 1, 1) ELSE keep
    IN  [mant |-> SubSeq(m, 1, p), exp |-> exp + (n - p) + (Len(m) - p)]

\* long division of x by d: what is left of x * 2^j, and the last bit of the
\* whole part of x * 2^j / d
RECURSIVE Rem(_, _, _)
Rem(x, d, j) == IF j = 0 THEN x % d ELSE (2 * Rem(x, d, j - 1)) % d

QuoBit(x, d, j) == IF j = 0 THEN (x \div d) % 2 ELSE (2 * Rem(x, d, j - 1)) \div d

\* the least k with x * 2^k >= d
RECURSIVE Shift(_, _)
Shift(x, d) == IF x >= d THEN 0 ELSE 1 + Shift(2 * x, d)

\* float64(x) / float64(d) for whole numbers 0 <= x <= d, 0 < d, small enough for
\* float64 to hold them as they are: the quotient, rounded once
Quo(x, d) ==
    IF x = 0 THEN Zero
    ELSE LET k == Shift(x, d)
             p == Float64Precision
         IN  RoundToEven([i \in 1..(p + 1) |-> QuoBit(x, d, k + i - 1)], 0 - k - p,
                         Rem(x, d, k + p) /= 0)

\* f * c for a small whole number c: the product, rounded once
Times(f, c) ==
    IF f = Zero THEN Zero ELSE RoundToEven(MulAdd(f.mant, c, 0), f.exp, FALSE)

\* float64(n)
Float64(n) == IF n = 0 THEN Zero ELSE RoundToEven(Bits(n), 0, FALSE)

Endpoints == {"chat", "models"}
Operations == {"query"}
Durations == 0..MaxDuration
\* a call's status code and error: a success, a server error, no answer at all
CallResults == {<<200, "nil">>, <<500, "500">>, <<0, "connection refused">>}
StatusCodes == {200, 500}

NoMap == [x \in {} |-> 0]

\* the collector InitMetrics makes. rate is what GetCacheHitRate returned if it
\* was the last call made (in a sequence, empty otherwise); apiLog and durLog are the calls of
\* RecordAPICall and RecordDuration so far, by endpoint and operation
\* (observations)
InitMetrics ==
    [cacheHits |-> 0, cacheMisses |-> 0, rate |-> <<>>,
     apiCalls |-> NoMap, totalAPICalls |-> 0, totalAPIErrors |-> 0,
     durations |-> NoMap, apiLog |-> NoMap, durLog |-> NoMap]

RecordCacheHit ==
    /\ metrics.cacheHits < MaxCounted
    /\ metrics' = [metrics EXCEPT !.cacheHits = @ + 1, !.rate = <<>>]

RecordCacheMiss ==
    /\ metrics.cacheMisses < MaxCounted
    /\ metrics' = [metrics EXCEPT !.cacheMisses = @ + 1, !.rate = <<>>]

\* the rate in whole numbers, the remainder dropped
HitRateWhole(hits, misses) ==
    IF hits + misses = 0 THEN Zero ELSE Float64((100 * hits) \div (hits + misses))

\* float64(hits) / float64(total) * 100, and 0 when there is nothing to divide by
HitRate(hits, misses) ==
    LET total == hits + misses
    IN  IF total = 0 THEN Zero ELSE Times(Quo(hits, total), 100)

GetCacheHitRate ==
    /\ metrics.rate = <<>>
    /\ metrics' = [metrics EXCEPT !.rate = <<HitRate(metrics.cacheHits, metrics.cacheMisses)>>]

\* m with the entry of key k set to v, made if it is not there
Put(m, k, v) == [x \in DOMAIN m \cup {k} |-> IF x = k THEN v ELSE m[x]]

Logged(log, k, call) ==
    Put(log, k, IF k \in DOMAIN log THEN Append(log[k], call) ELSE <<call>>)

\* the number of calls in the entries S of a log
RECURSIVE Calls(_, _)
Calls(log, S) ==
    IF S = {} THEN 0
    ELSE LET k == CHOOSE k \in S : TRUE IN Len(log[k]) + Calls(log, S \ {k})

RecordedCalls ==
    Calls(metrics.apiLog, DOMAIN metrics.apiLog) + Calls(metrics.durLog, DOMAIN metrics.durLog)

recordAPICall(apiCalls, endpoint, duration, statusCode, err, at) ==
    LET metrics0 == IF endpoint \in DOMAIN apiCalls THEN apiCalls[endpoint]
                    ELSE [Count |-> 0, Errors |-> 0, TotalDuration |-> 0,
                          MinDuration |-> duration, MaxDuration |-> duration,
                          LastCallTime |-> NoTime,
                          StatusCodes |-> [c \in StatusCodes |-> 0]]
    IN  Put(apiCalls, endpoint,
            [Count |-> metrics0.Count + 1,
             Errors |-> IF err /= "nil" THEN metrics0.Errors + 1 ELSE metrics0.Errors,
             TotalDuration |-> metrics0.TotalDuration + duration,
             MinDuration |-> IF duration < metrics0.MinDuration \/ metrics0.MinDuration = 0
                             THEN duration ELSE metrics0.MinDuration,
             MaxDuration |-> IF duration > metrics0.MaxDuration
                             THEN duration ELSE metrics0.MaxDuration,
             LastCallTime |-> at,
             StatusCodes |-> IF statusCode > 0
                             THEN [metrics0.StatusCodes EXCEPT ![statusCode] = @ + 1]
                             ELSE metrics0.StatusCodes])

RecordAPICall(endpoint, duration, statusCode, err) ==
    /\ RecordedCalls < MaxRecorded
    /\ metrics' = [metrics EXCEPT
           !.apiCalls = recordAPICall(@, endpoint, duration, statusCode, err, now),
           !.totalAPICalls = @ + 1,
           !.totalAPIErrors = IF err /= "nil" THEN @ + 1 ELSE @,
           !.apiLog = Logged(@, endpoint, [duration |-> duration, err |-> err])]

recordDuration(durations, operation, duration, at) ==
    LET metrics0 == IF operation \in DOMAIN durations THEN durations[operation]
                    ELSE [Count |-> 0, Total |-> 0, Min |-> duration, Max |-> duration,
                          Average |-> 0, LastUpdate |-> NoTime]
        count    == metrics0.Count + 1
        total    == metrics0.Total + duration
    IN  Put(durations, operation,
            [Count |-> count,
             Total |-> total,
             Min |-> IF duration < metrics0.Min \/ metrics0.Min = 0
                     THEN duration ELSE metrics0.Min,
             Max |-> IF duration > metrics0.Max THEN duration ELSE metrics0.Max,
             Average |-> IF count > 0 THEN total \div count ELSE metrics0.Average,
             LastUpdate |-> at])

RecordDuration(operation, duration) ==
    /\ RecordedCalls < MaxRecorded
    /\ metrics' = [metrics EXCEPT
           !.durations = recordDuration(@, operation, duration, now),
           !.durLog = Logged(@, operation, [duration |-> duration, err |-> "nil"])]

----------------------------------------------------------------------------

ClientStart(retryConfig) ==
    /\ client = NewOpenAIClient(retryConfig, TRUE)
    /\ http = [requests |-> 0, idleClosed |-> 0]
    /\ boff = NoBackoff
    /\ callObs = NoCallObs
    /\ keyObs = NoKeyObs
    /\ metrics = InitMetrics

\* calculateBackoff is called for the next attempt
Backoff ==
    /\ boff.attempt < MaxAttempt
    /\ boff' = [attempt |-> boff.attempt + 1,
                delay |-> calculateBackoff(client, boff.attempt + 1),
                prev |-> boff.delay]
    /\ UNCHANGED <<client, http>>

----------------------------------------------------------------------------
\* Observation of the calls.

NoCall == [op |-> "none", key |-> <<>>, ok |-> FALSE, entry |-> <<>>,
           deadline |-> 0, resp |-> NilResponse, evicted |-> {}, count |-> 0]

\* when the TTL of a Set made at t will have elapsed
Deadline(ttl, t) == t + (IF ttl = 0 THEN CfgTTL ELSE ttl)

PresentKeys(c) == {k \in Keys : c.entries[k] /= <<>>}

\* recency after a use of key, the keys in gone having left the cache
Touch(r, key, gone) ==
    <<key>> \o SelectSeq(r, LAMBDA k : k /= key /\ k \notin gone)

Forget(r, gone) == SelectSeq(r, LAMBDA k : k \notin gone)

\* lastSet once the cache has become c: the keys that left are forgotten
Keep(ls, c) == [k \in Keys |-> IF c.entries[k] = <<>> THEN <<>> ELSE ls[k]]

----------------------------------------------------------------------------
\* Cache actions.

CanCall == cache.mu = "unlocked"

Get(key) ==
    /\ CanCall
    /\ LET r == GetResult(cache, key, now)
       IN /\ cache' = r.c
          /\ last' = [NoCall EXCEPT !.op = "Get", !.key = key,
                                      !.ok = r.found, !.entry = r.entry]
          /\ recency' = IF r.found THEN Touch(recency, key, {})
                        ELSE Forget(recency, {key})
          /\ lastSet' = Keep(lastSet, r.c)
    /\ ops' = ops + 1
    /\ UNCHANGED now

Set(key, resp, ttl) ==
    /\ CanCall
    /\ LET r == SetResult(cache, key, NewEntry(resp, now), ttl, now)
           gone == (PresentKeys(cache) \ {key}) \ PresentKeys(r.c)
       IN /\ cache' = r.c
          /\ last' = [NoCall EXCEPT !.op = "Set", !.key = key, !.ok = ~r.err,
                                      !.deadline = Deadline(ttl, now),
                                      !.resp = resp, !.evicted = gone]
          /\ recency' = IF r.err THEN recency ELSE Touch(recency, key, gone)
          /\ lastSet' = IF r.err THEN lastSet
                        ELSE [Keep(lastSet, r.c) EXCEPT ![key] =
                                <<[deadline |-> Deadline(ttl, now), resp |-> resp]>>]
    /\ ops' = ops + 1
    /\ UNCHANGED now

Delete(key) ==
    /\ CanCall
    /\ cache' = removeLocked(cache, key)
    /\ last' = [NoCall EXCEPT !.op = "Delete", !.key = key,
                               !.ok = cache.entries[key] /= <<>>]
    /\ recency' = Forget(recency, {key})
    /\ lastSet' = Keep(lastSet, cache')
    /\ ops' = ops + 1
    /\ UNCHANGED now

Clear ==
    /\ CanCall
    /\ cache' = ClearResult(cache)
    /\ last' = [NoCall EXCEPT !.op = "Clear", !.ok = TRUE]
    /\ recency' = <<>>
    /\ lastSet' = Keep(lastSet, cache')
    /\ ops' = ops + 1
    /\ UNCHANGED now

InvalidatePattern(pattern) ==
    /\ CanCall
    /\ LET r == InvalidateResult(cache, pattern)
       IN /\ cache' = r.c
          /\ last' = [NoCall EXCEPT !.op = "InvalidatePattern",
                                      !.key = pattern, !.ok = TRUE, !.count = r.count]
          /\ recency' = Forget(recency, PresentKeys(cache) \ PresentKeys(r.c))
          /\ lastSet' = Keep(lastSet, r.c)
    /\ ops' = ops + 1
    /\ UNCHANGED now

\* one tick of the background sweep (cleanupRoutine's ticker case)
cleanup ==
    /\ cache.mu = "unlocked"
    /\ cache.sweeper = "select"
    /\ cache' = cleanupResult(cache, now)
    /\ cache' /= cache
    /\ recency' = Forget(recency, PresentKeys(cache) \ PresentKeys(cache'))
    /\ lastSet' = Keep(lastSet, cache')
    /\ UNCHANGED <<now, last, ops>>

Tick ==
    /\ now < MaxTime
    /\ now' = now + 1
    /\ UNCHANGED cacheVars

----------------------------------------------------------------------------
\* StreamHandler.  The source is the remote event stream: the text deltas it
\* still has to yield ("" is a delta without text), and the error it ends
\* with ("nil" for a clean end).

Deltas == {"", "a", "b"}

RECURSIVE SeqsUpTo(_, _)
SeqsUpTo(S, n) ==
    IF n = 0 THEN {<<>>}
    ELSE SeqsUpTo(S, n - 1) \cup {Append(s, x) : s \in SeqsUpTo(S, n - 1), x \in S}

Sources == SeqsUpTo(Deltas, MaxDeltas)
ErrSource == "unexpected EOF"
ErrConnect == "connection refused"

\* StreamChunk
ContentChunk(text) == [Content |-> text, Error |-> "nil", Done |-> FALSE]
ErrorChunk(err) == [Content |-> "", Error |-> err, Done |-> TRUE]
DoneChunk == [Content |-> "", Error |-> "nil", Done |-> TRUE]
Terminal(chunk) == chunk.Done \/ chunk.Error /= "nil"

NoStream ==
    [state |-> "none", src |-> <<>>, srcErr |-> "nil", ctx |-> FALSE, ret |-> "none",
     chunks |-> <<>>, closes |-> 0, pc |-> "none", pending |-> DoneChunk, after |-> "next",
     delivered |-> <<>>, called |-> <<>>, source |-> <<>>]

\* HandleStream: the stream it leaves behind, with the error it returns in
\* ret; connectErr is stream.Err() right after NewStreaming
handleStream(src, srcErr, connectErr) ==
    IF connectErr /= "nil"
    THEN [NoStream EXCEPT !.state = "open", !.closes = 1, !.pc = "exit",
                          !.ret = "failed to create stream: " \o connectErr]
    ELSE [NoStream EXCEPT !.state = "open", !.src = src, !.srcErr = srcErr, !.source = src,
                          !.ret = "nil", !.pc = "next"]

HandleStream(src, srcErr, connectErr) ==
    /\ stream.state = "none"
    /\ stream' = handleStream(src, srcErr, connectErr)

\* the producer stays in the loop after the cancellation chunk
producerNextGoesOn(s) ==
    IF s.src /= <<>>
    THEN IF s.ctx
         THEN [s EXCEPT !.src = Tail(@), !.pc = "send", !.after = "next",
                        !.pending = ErrorChunk(ErrCanceled)]
         ELSE IF Head(s.src) /= ""
              THEN [s EXCEPT !.src = Tail(@), !.pc = "send", !.after = "next",
                             !.pending = ContentChunk(Head(s.src))]
              ELSE [s EXCEPT !.src = Tail(@)]
    ELSE IF s.srcErr /= "nil"
         THEN [s EXCEPT !.pc = "send", !.after = "close", !.pending = ErrorChunk(s.srcErr)]
         ELSE [s EXCEPT !.pc = "send", !.after = "close", !.pending = DoneChunk]

\* the loop sending a chunk for every delta, with text or without
producerNextEveryDelta(s) ==
    IF s.src /= <<>>
    THEN IF s.ctx
         THEN [s EXCEPT !.src = Tail(@), !.pc = "send", !.after = "close",
                        !.pending = ErrorChunk(ErrCanceled)]
         ELSE [s EXCEPT !.src = Tail(@), !.pc = "send", !.after = "next",
                        !.pending = ContentChunk(Head(s.src))]
    ELSE IF s.srcErr /= "nil"
         THEN [s EXCEPT !.pc = "send", !.after = "close", !.pending = ErrorChunk(s.srcErr)]
         ELSE [s EXCEPT !.pc = "send", !.after = "close", !.pending = DoneChunk]

\* one turn of the goroutine's loop, lines 111-157, up to the channel send:
\* stream.Next() yields the next delta, or ends the loop; after a terminal
\* chunk the goroutine returns
producerNext(s) ==
    IF s.src /= <<>>
    THEN IF s.ctx
         THEN [s EXCEPT !.src = Tail(@), !.pc = "send", !.after = "close",
                        !.pending = ErrorChunk(ErrCanceled)]
         ELSE IF Head(s.src) /= ""
              THEN [s EXCEPT !.src = Tail(@), !.pc = "send", !.after = "next",
                             !.pending = ContentChunk(Head(s.src))]
              ELSE [s EXCEPT !.src = Tail(@)]
    ELSE IF s.srcErr /= "nil"
         THEN [s EXCEPT !.pc = "send", !.after = "close", !.pending = ErrorChunk(s.srcErr)]
         ELSE [s EXCEPT !.pc = "send", !.after = "close", !.pending = DoneChunk]

ProducerNext ==
    /\ stream.pc = "next"
    /\ stream' = producerNext(stream)

\* the request's context is cancelled: the source's read fails with it
SourceCancelled ==
    /\ stream.pc = "next"
    /\ stream.ctx
    /\ stream.srcErr /= ErrCanceled
    /\ stream' = [stream EXCEPT !.src = <<>>, !.srcErr = ErrCanceled]

\* chunks <- chunk: blocks while the buffer is full
ProducerSend ==
    /\ stream.pc = "send"
    /\ Len(stream.chunks) < ChunkBuffer
    /\ stream' = [stream EXCEPT !.chunks = Append(@, stream.pending),
                                !.pc = stream.after]

\* the deferred close(chunks)
ProducerClose ==
    /\ stream.pc = "close"
    /\ stream' = [stream EXCEPT !.closes = @ + 1, !.pc = "exit"]

\* the consumer takes a chunk from the channel
Receive ==
    /\ stream.chunks /= <<>>
    /\ stream' = [stream EXCEPT !.chunks = Tail(@),
                                !.delivered = Append(@, Head(stream.chunks))]

\* the caller cancels the stream's context
CancelStream ==
    /\ stream.state = "open"
    /\ stream.pc /= "exit"
    /\ ~stream.ctx
    /\ stream' = [stream EXCEPT !.ctx = TRUE]

StreamStart == stream = NoStream

----------------------------------------------------------------------------
\* OpenAIClient: the public methods.  A call is a goroutine's walk through
\* the method; thr[self].pc is the statement it is at or blocked in.

\* what one network attempt can come back with: a completion with choices,
\* a completion without choices, or an error
Completion(resp) == [err |-> "nil", choices |-> 1, resp |-> resp]
NoChoices == [err |-> "nil", choices |-> 0, resp |-> NilResponse]
Failure(err) == [err |-> err, choices |-> 0, resp |-> NilResponse]

isRetryableErrorAll(c, err) == err /= "nil"

\* errors.As(err, &apiErr) holds of the errors that are a status code
isRetryableError(c, err) ==
    /\ err /= "nil"
    /\ \/ err = "429"
       \/ err \in c.retryConfig.RetryableHTTPCodes
       \/ err = ErrDeadline

\* the call is over: Chat's result goes to its caller
Returned(g, err, resp) ==
    [g EXCEPT !.pc = "done", !.now = 0, !.timer = 0, !.attempt = 0,
              !.res = err, !.resp = resp]

\* Chat returns: to the caller of Chat, or into Query
chatReturn(g, err, resp) ==
    IF g.fn = "Query" /\ err = "nil"
    THEN [g EXCEPT !.pc = "q_store", !.now = 0, !.timer = 0, !.attempt = 0,
                   !.resp = resp]
    ELSE Returned(g, err, resp)

\* a goroutine starting a call of fn
Started(g, fn, msgs, opts, cancelled) ==
    [Idle EXCEPT !.fn = fn, !.msgs = msgs, !.opts = opts, !.ctx = cancelled,
                 !.pre = cancelled, !.calls = g.calls + 1]

CanStart(self) ==
    /\ thr[self].pc = "idle"
    /\ thr[self].calls < MaxCalls
    /\ client.mu = "unlocked"

\* Chat, lines 867-873
Chat(self, msgs, opts, cancelled) ==
    /\ CanStart(self)
    /\ LET g == Started(thr[self], "Chat", msgs, opts, cancelled)
       IN thr' = [thr EXCEPT ![self] =
                    IF client.closed THEN Returned(g, ErrClosed, NilResponse)
                    ELSE [g EXCEPT !.pc = "c_lookup"]]
    /\ UNCHANGED <<now, cache, rl, waitObs, client, http, stream>>

\* the lookup going on to the limiter, found or not
ChatLookupThenWait(self) ==
    /\ thr[self].pc = "c_lookup"
    /\ IF client.cacheEnabled
       THEN /\ CanCall
            /\ LET r == GetResult(cache, GenerateChatKey(thr[self].msgs, thr[self].opts), now)
               IN /\ cache' = r.c
                  /\ thr' = [thr EXCEPT ![self] =
                               [thr[self] EXCEPT !.pc = "w_lock",
                                                 !.resp = IF r.found THEN r.entry[1].Response
                                                          ELSE @]]
       ELSE /\ thr' = [thr EXCEPT ![self].pc = "w_lock"]
            /\ UNCHANGED cache
    /\ UNCHANGED <<now, rl, waitObs, client, http, stream>>

\* Chat, lines 875-885: the cache lookup
ChatLookup(self) ==
    /\ thr[self].pc = "c_lookup"
    /\ IF client.cacheEnabled
       THEN /\ CanCall
            /\ LET r == GetResult(cache, GenerateChatKey(thr[self].msgs, thr[self].opts), now)
               IN /\ cache' = r.c
                  /\ thr' = [thr EXCEPT ![self] =
                               IF r.found
                               THEN chatReturn(thr[self], "nil", r.entry[1].Response)
                               ELSE [thr[self] EXCEPT !.pc = "w_lock"]]
       ELSE /\ thr' = [thr EXCEPT ![self].pc = "w_lock"]
            /\ UNCHANGED cache
    /\ UNCHANGED <<now, rl, waitObs, client, http, stream>>

\* Chat, lines 887-901: Wait has returned; the defaults are applied
ChatLimited(self) ==
    /\ thr[self].pc = "w_done"
    /\ thr[self].fn \in {"Chat", "Query"}
    /\ thr' = [thr EXCEPT ![self] =
                 IF thr[self].res /= "nil"
                 THEN chatReturn(thr[self], ErrRateLimit, NilResponse)
                 ELSE [thr[self] EXCEPT !.pc = "c_attempt", !.attempt = 0, !.res = "none",
                                        !.opts = applyDefaults(thr[self].opts)]]
    /\ UNCHANGED <<now, cache, rl, waitObs, client, http, stream>>

\* the retry loop giving up with an error of its own
ChatAttemptWrapped(self, out) ==
    /\ thr[self].pc = "c_attempt"
    /\ http' = [http EXCEPT !.requests = @ + 1]
    /\ LET g == [thr[self] EXCEPT !.tr = Append(@, out)]
           rc == client.retryConfig
       IN thr' = [thr EXCEPT ![self] =
            IF out.err = "nil"
            THEN IF out.choices = 0
                 THEN chatReturn(g, ErrNoChoices, NilResponse)
                 ELSE [g EXCEPT !.pc = "c_store", !.resp = out.resp]
            ELSE IF ~isRetryableError(client, out.err)
            THEN chatReturn(g, out.err, NilResponse)
            ELSE IF g.attempt < rc.MaxRetries
            THEN [g EXCEPT !.pc = "c_backoff",
                           !.timer = now + calculateBackoff(client, g.attempt)]
            ELSE chatReturn(g, "max retries exceeded: " \o out.err, NilResponse)]
    /\ UNCHANGED <<now, cache, rl, waitObs, client, stream>>

\* Chat, lines 969-1006: one turn of the retry loop, the attempt coming back
\* with out, up to the backoff sleep or to the end of the loop
ChatAttempt(self, out) ==
    /\ thr[self].pc = "c_attempt"
    /\ http' = [http EXCEPT !.requests = @ + 1]
    /\ LET g == [thr[self] EXCEPT !.tr = Append(@, out)]
           rc == client.retryConfig
       IN thr' = [thr EXCEPT ![self] =
            IF out.err = "nil"
            THEN IF out.choices = 0
                 THEN chatReturn(g, ErrNoChoices, NilResponse)
                 ELSE [g EXCEPT !.pc = "c_store", !.resp = out.resp]
            ELSE IF ~isRetryableError(client, out.err)
            THEN chatReturn(g, out.err, NilResponse)
            ELSE IF g.attempt < rc.MaxRetries
            THEN [g EXCEPT !.pc = "c_backoff",
                           !.timer = now + calculateBackoff(client, g.attempt)]
            ELSE chatReturn(g, out.err, NilResponse)]
    /\ UNCHANGED <<now, cache, rl, waitObs, client, stream>>

\* the select at line 986, case time.After(delay)
ChatBackoffElapsed(self) ==
    /\ thr[self].pc = "c_backoff"
    /\ now >= thr[self].timer
    /\ thr' = [thr EXCEPT ![self].pc = "c_attempt", ![self].attempt = @ + 1,
                          ![self].timer = 0]
    /\ UNCHANGED <<now, cache, rl, waitObs, client, http, stream>>

\* the cancelled sleep going on to the next attempt
ChatBackoffCancelledRetries(self) ==
    /\ thr[self].pc = "c_backoff"
    /\ thr[self].ctx
    /\ thr' = [thr EXCEPT ![self].pc = "c_attempt", ![self].attempt = @ + 1,
                          ![self].timer = 0]
    /\ UNCHANGED <<now, cache, rl, waitObs, client, http, stream>>

\* the select at line 986, case ctx.Done()
ChatBackoffCancelled(self) ==
    /\ thr[self].pc = "c_backoff"
    /\ thr[self].ctx
    /\ thr' = [thr EXCEPT ![self] = chatReturn(thr[self], ErrCanceled, NilResponse)]
    /\ UNCHANGED <<now, cache, rl, waitObs, client, http, stream>>

\* Chat handing the error of Set to its caller
ChatStoreOrFail(self) ==
    /\ thr[self].pc = "c_store"
    /\ IF client.cacheEnabled
       THEN /\ CanCall
            /\ LET r == SetResult(cache, GenerateChatKey(thr[self].msgs, thr[self].opts),
                                  NewEntry(thr[self].resp, now), CfgTTL, now)
               IN /\ cache' = r.c
                  /\ thr' = [thr EXCEPT ![self] =
                               IF r.err
                               THEN Returned(thr[self], "exceeds max cache size", NilResponse)
                               ELSE chatReturn(thr[self], "nil", thr[self].resp)]
       ELSE /\ UNCHANGED cache
            /\ thr' = [thr EXCEPT ![self] = chatReturn(thr[self], "nil", thr[self].resp)]
    /\ UNCHANGED <<now, rl, waitObs, client, http, stream>>

\* Chat, lines 1008-1040: the response is stored and returned
ChatStore(self) ==
    /\ thr[self].pc = "c_store"
    /\ IF client.cacheEnabled
       THEN /\ CanCall
            /\ cache' = SetResult(cache, GenerateChatKey(thr[self].msgs, thr[self].opts),
                                  NewEntry(thr[self].resp, now), CfgTTL, now).c
       ELSE UNCHANGED cache
    /\ thr' = [thr EXCEPT ![self] = chatReturn(thr[self], "nil", thr[self].resp)]
    /\ UNCHANGED <<now, rl, waitObs, client, http, stream>>

\* Query, lines 776-782
Query(self, prompt, cancelled) ==
    /\ CanStart(self)
    /\ LET g == Started(thr[self], "Query", prompt, DefaultOptions, cancelled)
       IN thr' = [thr EXCEPT ![self] =
                    IF client.closed THEN Returned(g, ErrClosed, NilResponse)
                    ELSE [g EXCEPT !.pc = "q_lookup"]]
    /\ UNCHANGED <<now, cache, rl, waitObs, client, http, stream>>

\* Query, lines 784-809: the lookup by the prompt's key and, on a miss, the
\* call of Chat up to its closed check
QueryLookup(self) ==
    /\ thr[self].pc = "q_lookup"
    /\ client.mu = "unlocked"
    /\ IF client.cacheEnabled
       THEN /\ CanCall
            /\ LET r == GetResult(cache, GenerateKey(thr[self].msgs), now)
               IN /\ cache' = r.c
                  /\ thr' = [thr EXCEPT ![self] =
                               IF r.found
                               THEN Returned(thr[self], "nil", r.entry[1].Response)
                               ELSE IF client.closed
                               THEN Returned(thr[self], ErrClosed, NilResponse)
                               ELSE [thr[self] EXCEPT !.pc = "c_lookup"]]
       ELSE /\ thr' = [thr EXCEPT ![self] =
                         IF client.closed THEN Returned(thr[self], ErrClosed, NilResponse)
                         ELSE [thr[self] EXCEPT !.pc = "c_lookup"]]
            /\ UNCHANGED cache
    /\ UNCHANGED <<now, rl, waitObs, client, http, stream>>

\* Query storing under the key Chat uses
QueryStoreChatKey(self) ==
    /\ thr[self].pc = "q_store"
    /\ IF client.cacheEnabled /\ ~thr[self].resp.nil
       THEN /\ CanCall
            /\ cache' = SetResult(cache, GenerateChatKey(thr[self].msgs, thr[self].opts),
                                  NewEntry(thr[self].resp, now), CfgTTL, now).c
       ELSE UNCHANGED cache
    /\ thr' = [thr EXCEPT ![self] = Returned(thr[self], "nil", thr[self].resp)]
    /\ UNCHANGED <<now, rl, waitObs, client, http, stream>>

\* Query, lines 815-830: Chat's response is stored under the prompt's key
QueryStore(self) ==
    /\ thr[self].pc = "q_store"
    /\ IF client.cacheEnabled /\ ~thr[self].resp.nil
       THEN /\ CanCall
            /\ cache' = SetResult(cache, GenerateKey(thr[self].msgs),
                                  NewEntry(thr[self].resp, now), CfgTTL, now).c
       ELSE UNCHANGED cache
    /\ thr' = [thr EXCEPT ![self] = Returned(thr[self], "nil", thr[self].resp)]
    /\ UNCHANGED <<now, rl, waitObs, client, http, stream>>

\* StreamQuery, lines 834-840
StreamQuery(self, prompt, cancelled) ==
    /\ CanStart(self)
    /\ LET g == Started(thr[self], "StreamQuery", prompt, DefaultOptions, cancelled)
       IN thr' = [thr EXCEPT ![self] =
                    IF client.closed THEN Returned(g, ErrClosed, NilResponse)
                    ELSE [g EXCEPT !.pc = "s_open"]]
    /\ UNCHANGED <<now, cache, rl, waitObs, client, http, stream>>

\* ChatStream, lines 1044-1050
ChatStream(self, msgs, opts, cancelled) ==
    /\ CanStart(self)
    /\ LET g == Started(thr[self], "ChatStream", msgs, opts, cancelled)
       IN thr' = [thr EXCEPT ![self] =
                    IF client.closed THEN Returned(g, ErrClosed, NilResponse)
                    ELSE [g EXCEPT !.pc = "w_lock"]]
    /\ UNCHANGED <<now, cache, rl, waitObs, client, http, stream>>

\* ChatStream, lines 1057-1068: Wait has returned
StreamLimited(self) ==
    /\ thr[self].pc = "w_done"
    /\ thr[self].fn = "ChatStream"
    /\ thr' = [thr EXCEPT ![self] =
                 IF thr[self].res /= "nil"
                 THEN Returned(thr[self], ErrRateLimit, NilResponse)
                 ELSE [thr[self] EXCEPT !.pc = "s_open", !.res = "none",
                          !.opts.Model = IF @ = "" THEN ConfigOpenAI.Model ELSE @]]
    /\ UNCHANGED <<now, cache, rl, waitObs, client, http, stream>>

\* HandleStream is called: by ChatStream, which returns what it returns, or
\* by ProcessStreamWithCallback for StreamQuery, which goes on to read
StreamOpen(self, src, srcErr, connectErr) ==
    /\ thr[self].pc = "s_open"
    /\ http' = [http EXCEPT !.requests = @ + 1]
    /\ stream' = [handleStream(src, srcErr, connectErr) EXCEPT !.ctx = thr[self].ctx]
    /\ thr' = [thr EXCEPT ![self] =
                 IF thr[self].fn = "ChatStream"
                 THEN Returned(thr[self], stream'.ret, NilResponse)
                 ELSE IF stream'.ret /= "nil"
                 THEN Returned(thr[self], "failed to start stream: " \o stream'.ret, NilResponse)
                 ELSE [thr[self] EXCEPT !.pc = "s_read"]]
    /\ UNCHANGED <<now, cache, rl, waitObs, client>>

\* the range loop going on after a chunk that is marked done
ProcessReadOn(self) ==
    /\ thr[self].pc = "s_read"
    /\ \/ /\ stream.chunks /= <<>>
          /\ LET chunk == Head(stream.chunks)
             IN /\ stream' = [stream EXCEPT
                       !.chunks = Tail(@),
                       !.delivered = Append(@, chunk),
                       !.called = IF chunk.Error = "nil" /\ ~chunk.Done /\ chunk.Content /= ""
                                  THEN Append(@, chunk.Content) ELSE @]
                /\ thr' = [thr EXCEPT ![self] =
                             IF chunk.Error /= "nil"
                             THEN Returned(thr[self],
                                           IF chunk.Error = ErrCanceled THEN ErrCanceled
                                           ELSE "stream error: " \o chunk.Error,
                                           NilResponse)
                             ELSE thr[self]]
       \/ /\ stream.chunks = <<>>
          /\ stream.closes > 0
          /\ thr' = [thr EXCEPT ![self] = Returned(thr[self], "nil", NilResponse)]
          /\ UNCHANGED stream
    /\ UNCHANGED <<now, cache, rl, waitObs, client, http>>

\* ProcessStreamWithCallback, lines 181-208: one turn of the range loop;
\* stream.called is what the callback has been called with
ProcessRead(self) ==
    /\ thr[self].pc = "s_read"
    /\ \/ /\ stream.chunks /= <<>>
          /\ LET chunk == Head(stream.chunks)
             IN /\ stream' = [stream EXCEPT
                       !.chunks = Tail(@),
                       !.delivered = Append(@, chunk),
                       !.called = IF chunk.Error = "nil" /\ ~chunk.Done /\ chunk.Content /= ""
                                  THEN Append(@, chunk.Content) ELSE @]
                /\ thr' = [thr EXCEPT ![self] =
                             IF chunk.Error /= "nil"
                             THEN Returned(thr[self],
                                           IF chunk.Error = ErrCanceled THEN ErrCanceled
                                           ELSE "stream error: " \o chunk.Error,
                                           NilResponse)
                             ELSE IF chunk.Done
                             THEN Returned(thr[self], "nil", NilResponse)
                             ELSE thr[self]]
       \/ /\ stream.chunks = <<>>
          /\ stream.closes > 0
          /\ thr' = [thr EXCEPT ![self] = Returned(thr[self], "nil", NilResponse)]
          /\ UNCHANGED stream
    /\ UNCHANGED <<now, cache, rl, waitObs, client, http>>

\* ListModels, lines 1075-1081
ListModels(self, cancelled) ==
    /\ CanStart(self)
    /\ LET g == Started(thr[self], "ListModels", "", DefaultOptions, cancelled)
       IN thr' = [thr EXCEPT ![self] =
                    IF client.closed THEN Returned(g, ErrClosed, NilResponse)
                    ELSE [g EXCEPT !.pc = "l_call"]]
    /\ UNCHANGED <<now, cache, rl, waitObs, client, http, stream>>

\* ListModels, lines 1083-1096: the pages are fetched
ListModelsFetch(self, err) ==
    /\ thr[self].pc = "l_call"
    /\ http' = [http EXCEPT !.requests = @ + 1]
    /\ thr' = [thr EXCEPT ![self] = Returned(thr[self], err, NilResponse)]
    /\ UNCHANGED <<now, cache, rl, waitObs, client, stream>>

\* a call of one of the cache's methods through the client can start
CanStartCacheCall(self) ==
    /\ thr[self].pc = "idle"
    /\ thr[self].calls < MaxCalls
    /\ client.cacheEnabled => CanCall

\* GetCacheStats: cache.Stats() changes nothing
GetCacheStats(self) ==
    /\ CanStartCacheCall(self)
    /\ thr' = [thr EXCEPT ![self] =
                 Returned(Started(thr[self], "GetCacheStats", "", DefaultOptions, FALSE),
                          "nil", NilResponse)]
    /\ UNCHANGED <<now, cache, rl, waitObs, client, http, stream>>

ClearCache(self) ==
    /\ CanStartCacheCall(self)
    /\ cache' = IF client.cacheEnabled THEN ClearResult(cache) ELSE cache
    /\ thr' = [thr EXCEPT ![self] =
                 Returned(Started(thr[self], "ClearCache", "", DefaultOptions, FALSE),
                          "nil", NilResponse)]
    /\ UNCHANGED <<now, rl, waitObs, client, http, stream>>

InvalidateCachePattern(self, pattern) ==
    /\ CanStartCacheCall(self)
    /\ cache' = IF client.cacheEnabled THEN InvalidateResult(cache, pattern).c ELSE cache
    /\ thr' = [thr EXCEPT ![self] =
                 Returned(Started(thr[self], "InvalidateCachePattern", "", DefaultOptions, FALSE),
                          "nil", NilResponse)]
    /\ UNCHANGED <<now, rl, waitObs, client, http, stream>>

\* InMemoryCache.Close: the sweep is stopped and waited for, then Save
cacheClose(c) ==
    [saveResult(c) EXCEPT !.closes = @ + 1,
                          !.stopCleanup = TRUE,
                          !.sweeper = "exit"]

\* Close without the test of closed
CloseAgain(self) ==
    /\ CanStart(self)
    /\ client.cacheEnabled => CanCall
    /\ client' = [client EXCEPT !.closed = TRUE]
    /\ cache' = IF client.cacheEnabled THEN cacheClose(cache) ELSE cache
    /\ http' = [http EXCEPT !.idleClosed = @ + 1]
    /\ thr' = [thr EXCEPT ![self] =
                 Returned(Started(thr[self], "Close", "", DefaultOptions, FALSE),
                          "nil", NilResponse)]
    /\ UNCHANGED <<now, rl, waitObs, stream>>

\* Close.  It holds c.mu all along; with the cache's lock held for good by
\* the sweep, cache.Stats() never returns and neither does Close.
Close(self) ==
    /\ CanStart(self)
    /\ LET g == Started(thr[self], "Close", "", DefaultOptions, FALSE)
       IN IF client.closed
          THEN /\ thr' = [thr EXCEPT ![self] = Returned(g, "nil", NilResponse)]
               /\ UNCHANGED <<client, cache, http>>
          ELSE IF client.cacheEnabled /\ ~CanCall
          THEN /\ thr' = [thr EXCEPT ![self] = [g EXCEPT !.pc = "x_stats"]]
               /\ client' = [client EXCEPT !.closed = TRUE, !.mu = self]
               /\ UNCHANGED <<cache, http>>
          ELSE /\ thr' = [thr EXCEPT ![self] = Returned(g, "nil", NilResponse)]
               /\ client' = [client EXCEPT !.closed = TRUE]
               /\ cache' = IF client.cacheEnabled THEN cacheClose(cache) ELSE cache
               /\ http' = [http EXCEPT !.idleClosed = @ + 1]
    /\ UNCHANGED <<now, rl, waitObs, stream>>

\* the caller has the result of its call
Return(self) ==
    /\ thr[self].pc = "done"
    /\ thr' = [thr EXCEPT ![self] = [Idle EXCEPT !.calls = thr[self].calls]]
    /\ UNCHANGED <<now, cache, rl, waitObs, client, http, stream>>

----------------------------------------------------------------------------
\* InMemoryCache: the sweep goroutine and Close, step by step.  cache.sweeper
\* is where cleanupRoutine is: in its select, inside cleanup at the call of
\* Save ("save", with cache.mu held by cleanup itself), or returned ("exit",
\* after wg.Done).  Save's first statement is c.mu.RLock(), which a
\* sync.RWMutex grants only when no goroutine holds the write lock.

\* a goroutine calls Get, Set or Stats and asks for c.mu
CacheCallStart(self, fn) ==
    /\ thr[self].pc = "idle"
    /\ thr[self].calls < MaxCalls
    /\ thr' = [thr EXCEPT ![self] =
                 [Started(thr[self], fn, "", DefaultOptions, FALSE) EXCEPT !.pc = "m_lock"]]
    /\ UNCHANGED cache

\* c.mu.Lock() is granted to a Get: lines 121-148
CacheGetRun(self, key) ==
    /\ thr[self].pc = "m_lock" /\ thr[self].fn = "Get"
    /\ cache.mu = "unlocked"
    /\ LET r == GetResult(cache, key, now)
       IN /\ cache' = r.c
          /\ thr' = [thr EXCEPT ![self] =
                       IF r.found THEN Returned(thr[self], "nil", r.entry[1].Response)
                       ELSE Returned(thr[self], "not found", NilResponse)]

\* c.mu.Lock() is granted to a Set: lines 157-200
CacheSetRun(self, key, resp) ==
    /\ thr[self].pc = "m_lock" /\ thr[self].fn = "Set"
    /\ cache.mu = "unlocked"
    /\ LET r == SetResult(cache, key, NewEntry(resp, now), 0, now)
       IN /\ cache' = r.c
          /\ thr' = [thr EXCEPT ![self] =
                       Returned(thr[self], IF r.err THEN "exceeds max cache size" ELSE "nil",
                                NilResponse)]

\* c.mu.RLock() is granted to a Stats: lines 239-250
CacheStatsRun(self) ==
    /\ thr[self].pc = "m_lock" /\ thr[self].fn = "Stats"
    /\ cache.mu = "unlocked"
    /\ thr' = [thr EXCEPT ![self] = Returned(thr[self], "nil", NilResponse)]
    /\ UNCHANGED cache

\* Close, lines 277-278: close(c.stopCleanup), then c.wg.Wait(); Close is
\* called once, as OpenAIClient.Close does
CacheCloseCall(self) ==
    /\ thr[self].pc = "idle"
    /\ thr[self].calls < MaxCalls
    /\ ~cache.stopCleanup
    /\ cache' = [cache EXCEPT !.stopCleanup = TRUE]
    /\ thr' = [thr EXCEPT ![self] =
                 [Started(thr[self], "Close", "", DefaultOptions, FALSE) EXCEPT !.pc = "k_wait"]]

\* cleanupRoutine's select, case <-ticker.C: cleanup, up to its return or to
\* its call of Save
SweepTick ==
    /\ cache.sweeper = "select"
    /\ cache.mu = "unlocked"
    /\ cache' = cleanupResult(cache, now)
    /\ UNCHANGED thr

\* cleanupRoutine's select, case <-c.stopCleanup: return, and wg.Done
SweepStop ==
    /\ cache.sweeper = "select"
    /\ cache.stopCleanup
    /\ cache' = [cache EXCEPT !.sweeper = "exit"]
    /\ UNCHANGED thr

\* Close, lines 280-285: wg.Wait() has returned; Save under the read lock
CacheCloseSave(self) ==
    /\ thr[self].pc = "k_wait"
    /\ cache.sweeper = "exit"
    /\ cache.persistPath => cache.mu = "unlocked"
    /\ cache' = [saveResult(cache) EXCEPT !.closes = @ + 1]
    /\ thr' = [thr EXCEPT ![self] = Returned(thr[self], "nil", NilResponse)]

----------------------------------------------------------------------------
\* InMemoryCache: Save step by step, the process stopping, and a new process
\* loading what the old one left on disk.  cache.saving is where Save is;
\* cache.tmp is the file persistPath + ".tmp", cache.disk the file persistPath.

\* the orders in which a map with the keys S can be iterated
Orders(S) ==
    {o \in SeqsUpTo(S, Cardinality(S)) :
        Len(o) = Cardinality(S) /\ \A i, j \in 1..Len(o) : i /= j => o[i] /= o[j]}

\* Save, lines 290-300: the read lock is taken, the directory made
SaveBegin ==
    /\ cache.persistPath
    /\ cache.mu = "unlocked"
    /\ cache.saving = "none"
    /\ cache' = [cache EXCEPT !.mu = "save", !.saving = "create"]

\* Save, lines 304-309: os.Create makes the temporary file, or empties it
SaveCreate ==
    /\ cache.saving = "create"
    /\ cache' = [cache EXCEPT !.tmp = <<File(encode(cache), 0)>>, !.saving = "write"]

\* the encoder moving on to the rename after its first write
SaveWriteOnce ==
    /\ cache.saving = "write"
    /\ LET f == [cache.tmp[1] EXCEPT !.n = @ + 1]
       IN cache' = [cache EXCEPT !.tmp = <<f>>, !.saving = "rename"]

\* Save, lines 318-322: the encoder writes the next part of the stream into
\* the temporary file; after the last part Encode returns
SaveWrite ==
    /\ cache.saving = "write"
    /\ LET f == [cache.tmp[1] EXCEPT !.n = @ + 1]
       IN cache' = [cache EXCEPT !.tmp = <<f>>,
                                 !.saving = IF Complete(f) THEN "rename" ELSE "write"]

\* Save, lines 325-330: os.Rename puts the temporary file in the place of the
\* snapshot in one step; the lock is released
SaveRename ==
    /\ cache.saving = "rename"
    /\ cache' = [cache EXCEPT !.disk = cache.tmp, !.tmp = <<>>, !.saving = "none",
                              !.mu = "unlocked"]

\* Save fails: at os.Create (line 306), in Encode or in os.Rename, after
\* which the temporary file is removed (lines 320, 326)
SaveFail ==
    /\ cache.saving \in {"create", "write", "rename"}
    /\ cache' = [cache EXCEPT !.tmp = IF cache.saving = "create" THEN @ ELSE <<>>,
                              !.saving = "none", !.mu = "unlocked"]

\* the process stops where it is; a new process makes its cache over the same
\* directory: NewInMemoryCache, lines 87-110, with its call of Load
Restart(order) ==
    /\ cache.persistPath
    /\ cache' = Load([NewInMemoryCache(TRUE) EXCEPT !.disk = cache.disk, !.tmp = cache.tmp],
                     order, now)
    /\ last' = [NoCall EXCEPT !.op = "Load", !.ok = TRUE]
    /\ recency' = <<>>
    /\ lastSet' = [k \in Keys |-> <<>>]
    /\ ops' = ops + 1
    /\ UNCHANGED now

\* NewInMemoryCache for a configuration whose MaxSize is maxSize MB
NewInMemoryCacheOf(maxSize, persist) ==
    [NewInMemoryCache(persist) EXCEPT !.maxSizeBytes = maxSize * BytesPerMB]

\* the same, with a configuration whose MaxSize may have been changed
RestartWith(maxSize, order) ==
    /\ cache.persistPath
    /\ cache' = Load([NewInMemoryCacheOf(maxSize, TRUE)
                          EXCEPT !.disk = cache.disk, !.tmp = cache.tmp],
                     order, now)
    /\ last' = [NoCall EXCEPT !.op = "Load", !.ok = TRUE]
    /\ recency' = <<>>
    /\ lastSet' = [k \in Keys |-> <<>>]
    /\ ops' = ops + 1
    /\ UNCHANGED now

\* Load called on the cache as it is; last.count is the number of entries it
\* held when Load was called
LoadCall(order) ==
    /\ cache.persistPath
    /\ CanCall
    /\ cache' = Load(cache, order, now)
    /\ last' = [NoCall EXCEPT !.op = "Load", !.ok = TRUE, !.count = Len(cache.lruList)]
    /\ ops' = ops + 1
    /\ UNCHANGED <<now, recency, lastSet>>

\* Save, from its first line to its last
Save ==
    /\ cache.persistPath
    /\ CanCall
    /\ cache' = saveResult(cache)
    /\ cache' /= cache
    /\ UNCHANGED <<now, last, recency, lastSet, ops>>

\* what a caller sees of its calls: the options as it passed them (Chat
\* changes its own copy), and the last call of Chat or Query that missed the
\* cache and succeeded, with the time until which the answer stored is kept
ObserveCalls(t) ==
    callObs' =
        IF thr[t].pc = "idle" /\ thr'[t].pc /= "idle"
        THEN [callObs EXCEPT !.arg = thr'[t].opts]
        ELSE IF thr[t].pc \in {"c_store", "q_store"} /\ thr'[t].pc = "done"
        THEN [callObs EXCEPT !.stored =
                <<[fn |-> thr[t].fn, msgs |-> thr[t].msgs, opts |-> callObs.arg,
                   resp |-> thr[t].resp, deadline |-> now + CfgTTL]>>]
        ELSE callObs

----------------------------------------------------------------------------
\* Specifications.

CacheStart(persist) ==
    /\ cache = NewInMemoryCache(persist)
    /\ last = NoCall
    /\ recency = <<>>
    /\ lastSet = [k \in Keys |-> <<>>]
    /\ ops = 0

CacheInit ==
    /\ now = 0
    /\ \E persist \in BOOLEAN : CacheStart(persist)
    /\ LimiterStart(1, 1)
    /\ ClientStart(DefaultRetryConfig)
    /\ StreamStart

\* the calls a client of the cache can make, over the given inputs
CacheCall(KS, RS, TS, PS) ==
    \/ \E k \in KS : Get(k)
    \/ \E k \in KS, r \in RS, t \in TS : Set(k, r, t)
    \/ \E k \in KS : Delete(k)
    \/ Clear
    \/ \E p \in PS : InvalidatePattern(p)

\* capacity and recency: three keys, an entry of which two fit, one that fills
\* the cache and one that never fits, every entry expiring one tick after its Set
CacheNext ==
    /\ \/ ops < MaxOps /\ CacheCall(Keys, {RespBig, RespFull, RespHuge}, {1}, {<<>>, <<"a">>})
       \/ cleanup
       \/ Tick
    /\ UNCHANGED <<limiterVars, clientVars, stream>>

SpecCache == CacheInit /\ [][CacheNext]_vars

\* expiry: two keys, two entries that fit, every kind of ttl
TTLNext ==
    /\ \/ ops < MaxTTLOps /\ CacheCall({KeyA, KeyB}, {NilResponse, RespBig}, TTLs, {<<"a">>})
       \/ cleanup
       \/ Tick
    /\ UNCHANGED <<limiterVars, clientVars, stream>>

SpecCacheTTL == CacheInit /\ [][TTLNext]_vars

LimiterInit ==
    /\ now = 0
    /\ \E m \in 1..MaxMinInterval, n \in 1..MaxPerMin : LimiterStart(m, n)
    /\ CacheStart(FALSE)
    /\ ClientStart(DefaultRetryConfig)
    /\ StreamStart

LimiterNext ==
    /\ \/ \E t \in Threads, c \in BOOLEAN : WaitCall(t, c)
       \/ \E t \in Threads : WaitEnter(t)
       \/ \E t \in Threads : WindowElapsed(t)
       \/ \E t \in Threads : IntervalElapsed(t)
       \/ \E t \in Threads : WaitCancelled(t)
       \/ \E t \in Threads : WaitReturn(t)
       \/ \E t \in Threads : Cancel(t)
       \/ ClockTick
    /\ UNCHANGED <<cacheVars, clientVars, stream>>

SpecLimiter == LimiterInit /\ [][LimiterNext]_vars

\* every goroutine that can take its next step inside Wait does: it takes the
\* mutex once it is free, and leaves a select once a case of it is ready.
\* Nothing makes the clock move or a caller cancel.
SpecLimiterFair ==
    /\ SpecLimiter
    /\ \A t \in Threads :
          /\ WF_limiterVars(WaitEnter(t))
          /\ WF_limiterVars(WindowElapsed(t))
          /\ WF_limiterVars(IntervalElapsed(t))
          /\ WF_limiterVars(WaitCancelled(t))

BackoffInit ==
    /\ now = 0
    /\ CacheStart(FALSE)
    /\ LimiterStart(1, 1)
    /\ \E rc \in RetryConfigs : ClientStart(rc)
    /\ StreamStart

BackoffNext ==
    /\ Backoff
    /\ UNCHANGED <<now, cacheVars, limiterVars, callObs, keyObs, metrics, stream>>

SpecBackoff == BackoffInit /\ [][BackoffNext]_vars

\* the limiter NewOpenAIClient sets up: one request a second, and as many a
\* window as the window has seconds (60 a minute)
ClientLimiterStart == LimiterStart(1, Minute)

ChatInit ==
    /\ now = 0
    /\ CacheStart(FALSE)
    /\ ClientLimiterStart
    /\ ClientStart(DefaultRetryConfig)
    /\ StreamStart

\* the steps of Wait, made inside a call of the client
WaitSteps(T) ==
    /\ \/ \E t \in T : WaitEnter(t)
       \/ \E t \in T : IntervalElapsed(t)
       \/ \E t \in T : WaitCancelled(t)
       \/ \E t \in T : Cancel(t)
       \/ ClockTick
    /\ UNCHANGED <<cache, client, http, stream>>

\* what the service answers in SpecChat
ChatOutcomes == {Completion(RespBig), NoChoices, Failure("500"), Failure("401")}

ChatNext ==
    /\ \/ \E m \in {"p"}, o \in {DefaultOptions, applyDefaults(DefaultOptions)} :
              Chat("t1", m, o, FALSE)
       \/ ChatLookup("t1")
       \/ ChatLimited("t1")
       \/ \E out \in ChatOutcomes : ChatAttempt("t1", out)
       \/ ChatBackoffElapsed("t1")
       \/ ChatBackoffCancelled("t1")
       \/ ChatStore("t1")
       \/ Return("t1")
       \/ WaitSteps({"t1"})
    /\ ObserveCalls("t1")
    /\ UNCHANGED <<last, recency, lastSet, ops, boff, keyObs, metrics>>

SpecChat == ChatInit /\ [][ChatNext]_vars

\* the errors an attempt can come back with: an *openai.Error with its status
\* code, an error of the connection, or the context's error
AttemptErrors ==
    {"400", "401", "408", "429", "500", "501", "503", ErrConnect, ErrDeadline, ErrCanceled}

\* Chat called by one caller, the service answering with every kind of error
RetryNext ==
    /\ \/ Chat("t1", "p", DefaultOptions, FALSE)
       \/ ChatLookup("t1")
       \/ ChatLimited("t1")
       \/ \E out \in {Completion(RespBig)} \cup {Failure(e) : e \in AttemptErrors} :
              ChatAttempt("t1", out)
       \/ ChatBackoffElapsed("t1")
       \/ ChatBackoffCancelled("t1")
       \/ ChatStore("t1")
       \/ Return("t1")
       \/ WaitSteps({"t1"})
    /\ ObserveCalls("t1")
    /\ UNCHANGED <<last, recency, lastSet, ops, boff, keyObs, metrics>>

SpecRetry == ChatInit /\ [][RetryNext]_vars

\* Query called again and again by one caller, the service answering as in
\* SpecChat
QueryNext ==
    /\ \/ \E p \in Prompts : Query("t1", p, FALSE)
       \/ QueryLookup("t1")
       \/ ChatLookup("t1")
       \/ ChatLimited("t1")
       \/ \E out \in ChatOutcomes : ChatAttempt("t1", out)
       \/ ChatBackoffElapsed("t1")
       \/ ChatBackoffCancelled("t1")
       \/ ChatStore("t1")
       \/ QueryStore("t1")
       \/ Return("t1")
       \/ WaitSteps({"t1"})
    /\ ObserveCalls("t1")
    /\ UNCHANGED <<last, recency, lastSet, ops, boff, keyObs, metrics>>

SpecQuery == ChatInit /\ [][QueryNext]_vars

\* Chat and Query called by one caller, the service answering with a response
\* that fits the cache, with one that is larger than the cache, or not at all
StoreNext ==
    /\ \/ Chat("t1", "p", DefaultOptions, FALSE)
       \/ Query("t1", "p", FALSE)
       \/ QueryLookup("t1")
       \/ ChatLookup("t1")
       \/ ChatLimited("t1")
       \/ \E out \in {Completion(RespBig), Completion(RespHuge), Failure("401")} :
              ChatAttempt("t1", out)
       \/ ChatStore("t1")
       \/ QueryStore("t1")
       \/ Return("t1")
       \/ WaitSteps({"t1"})
    /\ ObserveCalls("t1")
    /\ UNCHANGED <<last, recency, lastSet, ops, boff, keyObs, metrics>>

SpecStore == ChatInit /\ [][StoreNext]_vars

ClientInit ==
    /\ now = 0
    /\ \E persist \in BOOLEAN : CacheStart(persist)
    /\ ClientLimiterStart
    /\ ClientStart(DefaultRetryConfig)
    /\ StreamStart

\* the calls of the public methods
ClientCall(T, U) ==
    \/ \E t \in U : Close(t)
    \/ \E t \in T :
        \/ Query(t, "p", FALSE)
        \/ StreamQuery(t, "p", FALSE)
        \/ Chat(t, "p", DefaultOptions, FALSE)
        \/ ChatStream(t, "p", DefaultOptions, FALSE)
        \/ ListModels(t, FALSE)
        \/ GetCacheStats(t)
        \/ ClearCache(t)
        \/ InvalidateCachePattern(t, <<"c">>)

\* the steps inside the calls, the service answering at once and well or not
ClientStep(T) ==
    \E t \in T :
        \/ QueryLookup(t)
        \/ QueryStore(t)
        \/ ChatLookup(t)
        \/ ChatLimited(t)
        \/ \E out \in {Completion(RespBig), Failure("401")} : ChatAttempt(t, out)
        \/ ChatStore(t)
        \/ StreamLimited(t)
        \/ \E connectErr \in {"nil", ErrConnect} : StreamOpen(t, <<"a">>, "nil", connectErr)
        \/ ProcessRead(t)
        \/ \E err \in {"nil", "401"} : ListModelsFetch(t, err)

ClientNext ==
    /\ \/ ClientCall({"t1"}, Threads)
       \/ ClientStep({"t1"})
       \/ \E t \in Threads : Return(t)
       \/ /\ \/ WaitEnter("t1")
             \/ IntervalElapsed("t1")
          /\ UNCHANGED <<cache, client, http, stream>>
       \/ /\ Tick
          /\ UNCHANGED <<limiterVars, client, http, stream>>
       \/ /\ \/ ProducerNext
             \/ ProducerSend
             \/ ProducerClose
          /\ UNCHANGED <<now, cache, limiterVars, client, http>>
       \/ /\ cache.mu = "unlocked"
          /\ cache.closes = 0
          /\ cache' = cleanupResult(cache, now)
          /\ cache' /= cache
          /\ UNCHANGED <<now, limiterVars, client, http, stream>>
    /\ UNCHANGED <<last, recency, lastSet, ops, boff, callObs, keyObs, metrics>>

SpecClient == ClientInit /\ [][ClientNext]_vars

\* persistence: a cache with a storage directory, two keys, one whose entries
\* expire a tick after their Set and one whose entries live for the default
\* TTL; Save whenever the lock is free
PersistInit ==
    /\ now = 0
    /\ CacheStart(TRUE)
    /\ LimiterStart(1, 1)
    /\ ClientStart(DefaultRetryConfig)
    /\ StreamStart

PersistNext ==
    /\ \/ /\ ops < MaxOps
          /\ \/ \E k \in {KeyA, KeyB} : Get(k)
             \/ Set(KeyA, RespBig, 1)
             \/ Set(KeyB, RespBig, 0)
             \/ Clear
       \/ /\ ops < MaxOps
          /\ \E order \in Orders(IF cache.disk = <<>> THEN {} ELSE DOMAIN cache.disk[1].data) :
                Restart(order)
       \/ /\ \/ SaveBegin
             \/ SaveCreate
             \/ SaveWrite
             \/ SaveRename
             \/ SaveFail
          /\ UNCHANGED <<now, last, recency, lastSet, ops>>
       \/ Tick
    /\ UNCHANGED <<limiterVars, clientVars, stream>>

SpecPersist == PersistInit /\ [][PersistNext]_vars

\* Load: a cache with a storage directory under a configuration of 1 to
\* MaxCfgMaxSize MB, entries that live for the default TTL, Save, a new process
\* under any of these configurations, and Load called on the cache in use
LoadInit ==
    /\ now = 0
    /\ \E maxSize \in 1..MaxCfgMaxSize : cache = NewInMemoryCacheOf(maxSize, TRUE)
    /\ last = NoCall
    /\ recency = <<>>
    /\ lastSet = [k \in Keys |-> <<>>]
    /\ ops = 0
    /\ LimiterStart(1, 1)
    /\ ClientStart(DefaultRetryConfig)
    /\ StreamStart

LoadNext ==
    /\ \/ /\ ops < MaxOps
          /\ \/ \E k \in Keys : Set(k, RespBig, 0)
             \/ \E maxSize \in 1..MaxCfgMaxSize,
                   order \in Orders(IF cache.disk = <<>> THEN {} ELSE DOMAIN cache.disk[1].data) :
                    RestartWith(maxSize, order)
             \/ \E order \in Orders(IF cache.disk = <<>> THEN {} ELSE DOMAIN cache.disk[1].data) :
                    LoadCall(order)
       \/ Save
       \/ Tick
    /\ UNCHANGED <<limiterVars, clientVars, stream>>

SpecLoad == LoadInit /\ [][LoadNext]_vars

\* the cache on its own: callers of Get, Set and Stats, one call of Close,
\* and the sweep, whose ticker may fire at any time
SweepNext ==
    /\ \/ /\ \/ \E t \in Threads, fn \in {"Get", "Set", "Stats"} : CacheCallStart(t, fn)
             \/ \E t \in Threads : CacheGetRun(t, KeyA)
             \/ \E t \in Threads : CacheSetRun(t, KeyA, RespBig)
             \/ \E t \in Threads : CacheStatsRun(t)
             \/ CacheCloseCall("t1")
             \/ CacheCloseSave("t1")
             \/ SweepTick
             \/ SweepStop
          /\ UNCHANGED <<now, rl, waitObs, client, http, stream>>
       \/ \E t \in Threads : Return(t)
       \/ /\ Tick
          /\ UNCHANGED <<limiterVars, client, http, stream>>
    /\ UNCHANGED <<last, recency, lastSet, ops, boff, callObs, keyObs, metrics>>

SpecSweep == ClientInit /\ [][SweepNext]_vars

\* every goroutine that can run does: the callers once c.mu is granted, the
\* sweep once it is signalled, Close once the sweep is gone
SpecSweepFair ==
    /\ SpecSweep
    /\ \A t \in Threads :
          /\ WF_<<cache, thr>>(CacheGetRun(t, KeyA))
          /\ WF_<<cache, thr>>(CacheSetRun(t, KeyA, RespBig))
          /\ WF_<<cache, thr>>(CacheStatsRun(t))
    /\ WF_<<cache, thr>>(SweepStop)
    /\ WF_<<cache, thr>>(CacheCloseSave("t1"))

StreamInit ==
    /\ now = 0
    /\ CacheStart(FALSE)
    /\ ClientLimiterStart
    /\ ClientStart(DefaultRetryConfig)
    /\ StreamStart

StreamNext ==
    /\ \/ \E src \in Sources, srcErr \in {"nil", ErrSource}, connectErr \in {"nil", ErrConnect} :
              HandleStream(src, srcErr, connectErr)
       \/ ProducerNext
       \/ SourceCancelled
       \/ ProducerSend
       \/ ProducerClose
       \/ Receive
       \/ CancelStream
    /\ UNCHANGED <<now, cacheVars, limiterVars, clientVars>>

SpecStream == StreamInit /\ [][StreamNext]_vars

\* ChatStream called by one caller, the connection failing or not; the channel
\* ChatStream returns is left unread
StreamCallNext ==
    /\ \/ ChatStream("t1", "p", DefaultOptions, FALSE)
       \/ StreamLimited("t1")
       \/ \E connectErr \in {"nil", "503", ErrConnect} :
              StreamOpen("t1", <<"a">>, "nil", connectErr)
       \/ Return("t1")
       \/ WaitSteps({"t1"})
       \/ /\ \/ ProducerNext
             \/ ProducerSend
             \/ ProducerClose
          /\ UNCHANGED <<now, cache, limiterVars, client, http>>
    /\ UNCHANGED <<last, recency, lastSet, ops, boff, callObs, keyObs, metrics>>

SpecStreamCall == StreamInit /\ [][StreamCallNext]_vars

\* StreamQuery called by one caller: ProcessStreamWithCallback reads what the
\* producer sends, the source yielding its deltas and ending well or not, the
\* caller cancelling
CallbackNext ==
    /\ \/ StreamQuery("t1", "p", FALSE)
       \/ \E src \in Sources, srcErr \in {"nil", ErrSource}, connectErr \in {"nil", ErrConnect} :
              StreamOpen("t1", src, srcErr, connectErr)
       \/ ProcessRead("t1")
       \/ Return("t1")
       \/ /\ \/ ProducerNext
             \/ SourceCancelled
             \/ ProducerSend
             \/ ProducerClose
             \/ CancelStream
          /\ UNCHANGED <<now, cache, limiterVars, client, http>>
    /\ UNCHANGED <<last, recency, lastSet, ops, boff, callObs, keyObs, metrics>>

SpecCallback == StreamInit /\ [][CallbackNext]_vars

\* the producer goroutine is scheduled, and the consumer keeps reading
SpecStreamRead ==
    /\ SpecStream
    /\ WF_stream(ProducerNext) /\ WF_stream(ProducerSend) /\ WF_stream(ProducerClose)
    /\ WF_stream(Receive)

\* the producer goroutine is scheduled; the consumer reads or stops reading as
\* it likes
SpecStreamProducer ==
    /\ SpecStream
    /\ WF_stream(ProducerNext) /\ WF_stream(ProducerSend) /\ WF_stream(ProducerClose)

----------------------------------------------------------------------------
\* Claims about the cache.

\* a step that is the call Get(k)
IsGet(k) == ops' = ops + 1 /\ last'.op = "Get" /\ last'.key = k

\* a step that is a call of Set
IsSet == ops' = ops + 1 /\ last'.op = "Set"

C1_GetStep ==
    \A k \in Keys :
        IsGet(k) =>
            /\ (/\ last.op = "Set" /\ last.key = k /\ last.ok
                /\ now < last.deadline)
               => /\ last'.ok
                  /\ last'.entry[1].Response = last.resp
            /\ (lastSet[k] /= <<>> /\ now > lastSet[k][1].deadline)
               => ~last'.ok

C2_CapacityAfterSet ==
    last.op = "Set" => cache.currentSize <= cache.maxSizeBytes

\* a Set that had to evict, and a cache that is as full as it can be
C2_Witness ==
    /\ last.op = "Set" /\ last.ok /\ last.evicted /= {}
    /\ Len(cache.lruList) = 2
    /\ cache.currentSize + calculateEntrySize(NewEntry(RespBig, 0)) > cache.maxSizeBytes

\* the n least recently used keys of r
LeastRecent(r, n) == {r[i] : i \in (Len(r) - n + 1)..Len(r)}

C3_SetStep ==
    (IsSet /\ last'.evicted /= {}) =>
        LET others == SelectSeq(recency, LAMBDA k : k /= last'.key)
            n == Cardinality(last'.evicted)
        IN /\ last'.evicted = LeastRecent(others, n)
           /\ cache'.stats.Evictions = cache.stats.Evictions + n

\* C3: a Set that must evict evicts the least recently used entries, a use
\* being a successful Get or a Set of the key, and counts each eviction once.
C3_EvictsLeastRecentlyUsed == [][C3_SetStep]_vars

\* A, B inserted, A read, C inserted: B is gone, A and C remain
C3_Witness ==
    /\ last.op = "Set" /\ last.key = KeyC /\ last.evicted = {KeyB}
    /\ ListKeys(cache.lruList) = <<KeyC, KeyA>>
    /\ cache.entries[KeyA][1].entry.AccessCount = 2
    /\ cache.stats.Evictions = 1

----------------------------------------------------------------------------
\* Claims about RateLimiter.Wait.

\* C5: any two consecutive successful returns of Wait on one limiter are at
\* least minInterval apart, whether the callers are sequential or concurrent.
C5_SpacedReturns == waitObs.gap = NoTime \/ waitObs.gap >= rl.minInterval

\* Two goroutines called Wait at the same time, both have passed, and the
\* second passed exactly minInterval after the first.
C5_Witness ==
    /\ rl.minInterval = MaxMinInterval
    /\ waitObs.gap = rl.minInterval
    /\ \A t \in Threads : thr[t].calls = 1 /\ thr[t].pc = "w_done" /\ thr[t].res = "nil"
    /\ rl.requestCount = 2

C6_WaitStep ==
    \A t \in Threads :
        (thr[t].pre /\ thr[t].pc \in {"w_lock", "w_window", "w_interval"}
                    /\ thr'[t] /= thr[t]) =>
            /\ thr'[t].pc = "w_done" /\ thr'[t].res = "cancelled"
            /\ rl'.requestCount = rl.requestCount
            /\ rl'.lastRequestTime = rl.lastRequestTime

\* C6: in every limiter state, a Wait call made with an already-cancelled
\* context returns a cancellation error without waiting, and leaves
\* requestCount and lastRequestTime as they were.
C6_CancelledBeforeCall == [][C6_WaitStep]_vars

----------------------------------------------------------------------------
\* Claims about the backoff.

Min(a, b) == IF a < b THEN a ELSE b

\* the delays of attempts 0..5 under the default configuration
DefaultDelays == <<1, 2, 4, 8, 16, 30>>

----------------------------------------------------------------------------
\* Claims about Chat's retry loop.

\* the attempts of a call of Chat that has returned
Attempts(g) == g.tr
Succeeded(out) == out.err = "nil"
Retryable(out) == out.err \in {"429", "500", "502", "503", "504", ErrDeadline}
ChatDone(g) == g.pc = "done" /\ g.fn = "Chat" /\ g.tr /= <<>>

\* C8: Chat's retry loop ends: it makes network attempts until the first
\* success, the first non-retryable error or maxRetries+1 attempts, and returns
\* success exactly when an attempt within that bound succeeded.
C8_RetryLoop ==
    \A t \in Threads : ChatDone(thr[t]) =>
        LET tr == Attempts(thr[t])
            n == Len(tr)
        IN /\ n <= client.retryConfig.MaxRetries + 1
           /\ \A i \in 1..(n - 1) : Retryable(tr[i])
           /\ Retryable(tr[n]) => n = client.retryConfig.MaxRetries + 1
           /\ thr[t].res = "nil" <=> Succeeded(tr[n])

\* C8 as amended: the loop also ends when the context is cancelled during a
\* backoff sleep, and a success without choices is returned as an error.
C8_RetryLoopAmended ==
    \A t \in Threads : ChatDone(thr[t]) =>
        LET tr == Attempts(thr[t])
            n == Len(tr)
        IN /\ n <= client.retryConfig.MaxRetries + 1
           /\ \A i \in 1..(n - 1) : Retryable(tr[i])
           /\ Retryable(tr[n]) =>
                 \/ n = client.retryConfig.MaxRetries + 1 /\ thr[t].res = tr[n].err
                 \/ thr[t].ctx /\ thr[t].res = ErrCanceled
           /\ thr[t].res = "nil" <=> (Succeeded(tr[n]) /\ tr[n].choices > 0)
           /\ (Succeeded(tr[n]) /\ tr[n].choices = 0) => thr[t].res = ErrNoChoices
           /\ (~Succeeded(tr[n]) /\ ~Retryable(tr[n])) => thr[t].res = tr[n].err

\* three retryable failures, then a success on the last attempt allowed
C8_Witness ==
    /\ ChatDone(thr["t1"])
    /\ Len(thr["t1"].tr) = 4
    /\ thr["t1"].tr[3] = Failure("500")
    /\ thr["t1"].tr[4] = Completion(RespBig)
    /\ thr["t1"].res = "nil"
    /\ http.requests = 4

----------------------------------------------------------------------------
\* Claims about the stream handler.

\* the chunks sent on the channel so far, in order
Sent == stream.delivered \o stream.chunks
TerminalAt == {i \in 1..Len(Sent) : Terminal(Sent[i])}

\* at most one terminal chunk, nothing after it, at most one close, and no
\* close before the terminal chunk
C4_Shape ==
    /\ Cardinality(TerminalAt) <= 1
    /\ \A i \in TerminalAt : i = Len(Sent)
    /\ stream.closes <= 1

C4_ShapeAmended ==
    stream.state = "open" =>
        /\ C4_Shape
        /\ stream.closes = 1 =>
              IF stream.ret = "nil" THEN Cardinality(TerminalAt) = 1 ELSE Sent = <<>>

----------------------------------------------------------------------------
\* Claims about the client's lifecycle.

\* Close has returned: closed is set and c.mu is free again
CloseReturned == client.closed /\ client.mu = "unlocked"

C9_CallStep ==
    \A t \in Threads :
        (CloseReturned /\ thr[t].pc = "idle" /\ thr'[t].pc /= "idle"
                       /\ thr'[t].fn /= "Close") =>
            /\ thr'[t].pc = "done"
            /\ thr'[t].res = ErrClosed
            /\ cache' = cache
            /\ http' = http
            /\ stream' = stream

\* C9: once Close has returned, every public method (Query, StreamQuery, Chat,
\* ChatStream, ListModels, GetCacheStats, ClearCache, InvalidateCachePattern)
\* fails at once with "client is closed" and touches neither the network nor
\* the cache nor the disk.
C9_ClosedClientFailsFast == [][C9_CallStep]_vars

C10_State ==
    /\ cache.closes <= 1
    /\ http.idleClosed <= 1
    /\ \A t \in Threads :
          (thr[t].pc = "done" /\ thr[t].fn = "Close") =>
              /\ thr[t].res = "nil"
              /\ cache.closes = 1
              /\ http.idleClosed = 1

C10_TeardownStep ==
    (cache'.closes /= cache.closes \/ http'.idleClosed /= http.idleClosed) =>
        /\ ~client.closed /\ client'.closed
        /\ cache.closes = 0 /\ cache'.closes = 1
        /\ http.idleClosed = 0 /\ http'.idleClosed = 1
        /\ \E t \in Threads : thr[t].pc = "idle" /\ thr'[t].fn = "Close"

\* C10: Close is idempotent: however many calls are made, one after the other
\* or at once, each call that returns returns nil, and the teardown (the
\* cache's Close, the release of the idle connections) is done exactly once,
\* by the first call.
C10_CloseIdempotent == []C10_State /\ [][C10_TeardownStep]_vars

\* Close was called twice, after a Chat had filled the cache: both calls have
\* returned and the one teardown wrote the snapshot
C10_Witness ==
    /\ \A t \in Threads : thr[t].pc = "done" /\ thr[t].fn = "Close" /\ thr[t].res = "nil"
    /\ cache.closes = 1
    /\ http.idleClosed = 1
    /\ cache.persistPath /\ cache.lruList /= <<>> /\ cache.disk /= <<>>

----------------------------------------------------------------------------
\* GenerateChatKey on two inputs: one of them is changed in one field at a
\* time and the keys of both are computed anew.

\* the keys of the two inputs x and y
Keyed(x, y, n) ==
    [a |-> x, b |-> y,
     ka |-> GenerateChatKeyJSON(x.messages, x.options),
     kb |-> GenerateChatKeyJSON(y.messages, y.options),
     edits |-> n]

\* the input on one side after a change
Edited(side, x) ==
    IF side = "a" THEN Keyed(x, keyObs.b, keyObs.edits + 1)
    ELSE Keyed(keyObs.a, x, keyObs.edits + 1)

\* one field of one message is given another value
EditMessage(side, i, field, text) ==
    /\ keyObs.edits < MaxEdits
    /\ i \in 1..Len(keyObs[side].messages)
    /\ keyObs[side].messages[i][field] /= text
    /\ keyObs' = Edited(side, [keyObs[side] EXCEPT !.messages[i][field] = text])

\* the last message is left out
DropMessage(side) ==
    /\ keyObs.edits < MaxEdits
    /\ keyObs[side].messages /= <<>>
    /\ keyObs' = Edited(side, [keyObs[side] EXCEPT
                       !.messages = SubSeq(@, 1, Len(@) - 1)])

\* one option is given another value
EditOption(side, field, value) ==
    /\ keyObs.edits < MaxEdits
    /\ keyObs[side].options[field] /= value
    /\ keyObs' = Edited(side, [keyObs[side] EXCEPT !.options[field] = value])

KeyInit ==
    /\ now = 0
    /\ CacheStart(FALSE)
    /\ ClientLimiterStart
    /\ client = NewOpenAIClient(DefaultRetryConfig, TRUE)
    /\ http = [requests |-> 0, idleClosed |-> 0]
    /\ boff = NoBackoff
    /\ callObs = NoCallObs
    /\ metrics = InitMetrics
    /\ \E n \in 1..Len(TestMessages), t \in {"0.7", "NaN"} :
           LET x == [messages |-> SubSeq(TestMessages, 1, n),
                     options |-> [TestOptions EXCEPT !.Temperature = t]]
           IN  keyObs = Keyed(x, x, 0)
    /\ StreamStart

KeyNext ==
    /\ \E side \in {"a", "b"} :
           \/ \E i \in 1..Len(TestMessages), field \in MessageFields, text \in Texts :
                  EditMessage(side, i, field, text)
           \/ DropMessage(side)
           \/ \E field \in TextFields, text \in Texts : EditOption(side, field, text)
           \/ \E field \in FloatFields, f \in Floats : EditOption(side, field, f)
           \/ \E field \in IntFields, n \in Ints : EditOption(side, field, n)
           \/ \E stop \in Stops : EditOption(side, "Stop", stop)
    /\ UNCHANGED <<now, cacheVars, limiterVars, client, http, boff, callObs, metrics, stream>>

SpecKey == KeyInit /\ [][KeyNext]_vars

\* the cache counters of the collector and the hit rate
HitRateNext ==
    /\ \/ RecordCacheHit
       \/ RecordCacheMiss
       \/ GetCacheHitRate
    /\ UNCHANGED <<now, cacheVars, limiterVars, client, http, boff, callObs, keyObs, stream>>

SpecHitRate == CacheInit /\ [][HitRateNext]_vars

\* the calls and durations the collector records
MetricsNext ==
    /\ \/ \E e \in Endpoints, d \in Durations, r \in CallResults :
              RecordAPICall(e, d, r[1], r[2])
       \/ \E o \in Operations, d \in Durations : RecordDuration(o, d)
    /\ UNCHANGED <<now, cacheVars, limiterVars, client, http, boff, callObs, keyObs, stream>>

SpecMetrics == CacheInit /\ [][MetricsNext]_vars

----------------------------------------------------------------------------
\* Claims about the client's use of the cache.

\* the call in progress repeats the last call of fn that missed and succeeded,
\* and the TTL of what that call stored has not elapsed
Repeats(t, fn) ==
    /\ callObs.stored /= <<>>
    /\ callObs.stored[1].fn = fn
    /\ thr[t].fn = fn
    /\ callObs.stored[1].msgs = thr[t].msgs
    /\ callObs.stored[1].opts = callObs.arg
    /\ now < callObs.stored[1].deadline

\* the answer of the earlier call is returned, and no request is made
ServedFromCache(t) ==
    /\ thr'[t].pc = "done"
    /\ thr'[t].res = "nil"
    /\ thr'[t].resp = callObs.stored[1].resp
    /\ thr'[t].tr = <<>>
    /\ http' = http
    /\ rl' = rl

C11_LookupStep ==
    \A t \in Threads :
        (thr[t].pc = "c_lookup" /\ thr'[t].pc /= "c_lookup" /\ Repeats(t, "Chat"))
            => ServedFromCache(t)

\* C11: after a Chat(m, o) that succeeded on a cache miss, an identical
\* Chat(m, o) issued before the TTL elapses is served from the cache, for any
\* options o, those with the model or N left unset included: Chat stores the
\* response under the key it looks up.
C11_ChatServedFromCache == [][C11_LookupStep]_vars

QueryDone(g) == g.pc = "done" /\ g.fn = "Query"

C12_LookupStep ==
    \A t \in Threads :
        (thr[t].pc = "q_lookup" /\ thr'[t].pc /= "q_lookup" /\ Repeats(t, "Query"))
            => ServedFromCache(t)

\* the step on which a call of Query returns
C12_ReturnStep ==
    \A t \in Threads : (thr[t].pc /= "done" /\ QueryDone(thr'[t])) =>
        LET g == thr'[t]
            held == cache'.entries[GenerateKey(g.msgs)]
        IN /\ (g.res = "nil" /\ g.tr /= <<>>) =>
                 /\ Succeeded(g.tr[Len(g.tr)])
                 /\ held /= <<>>
                 /\ held[1].entry.Response = g.resp
                 /\ held[1].entry.ExpiresAt = now + CfgTTL
           /\ g.res /= "nil" =>
                 /\ held = <<>>
                 /\ g.resp = NilResponse
                 /\ (g.tr /= <<>> /\ g.res /= ErrCanceled)
                       => g.res \in {g.tr[Len(g.tr)].err, ErrNoChoices}

\* C12: Query(prompt) looks the cache up by the prompt's key; on a miss it
\* calls Chat and, when Chat succeeds, stores the response under the prompt's
\* key, so that a second Query of the same prompt within the TTL returns the
\* same text without a wait on the limiter and without a request; when Chat
\* fails its error is returned and nothing is stored under the prompt's key.
C12_QueryByPromptKey == [][C12_LookupStep /\ C12_ReturnStep]_vars

\* a second Query of the same prompt, answered from the cache: one request
\* in all
C12_Witness ==
    /\ QueryDone(thr["t1"])
    /\ thr["t1"].calls = 2
    /\ thr["t1"].tr = <<>>
    /\ thr["t1"].res = "nil" /\ thr["t1"].resp = RespBig
    /\ callObs.stored /= <<>> /\ callObs.stored[1].fn = "Query"
    /\ http.requests = 1
    /\ rl.requestCount = 1

----------------------------------------------------------------------------
\* Claims about the cache's sweep and Close.

\* Close, once it returns, has seen the sweep goroutine end and has written
\* the snapshot
C13_Returned ==
    \A t \in Threads : (thr[t].pc = "done" /\ thr[t].fn = "Close") =>
        /\ cache.stopCleanup
        /\ cache.sweeper = "exit"
        /\ cache.persistPath => cache.disk = <<File(encode(cache), FileLen(encode(cache)))>>

\* C13: InMemoryCache.Close always returns: it signals the sweep, waits until
\* the sweep goroutine has ended, and then writes the snapshot, in every
\* state, a sweep tick in progress with a storage directory included.
C13_CloseReturns ==
    \A t \in Threads : (thr[t].pc = "k_wait") ~> C13_Returned /\ thr[t].pc = "done"

\* C14: every sweep tick completes and releases the cache's lock, so that a
\* Get, Set or Stats issued during or after a sweep always returns.
C14_CallsReturn ==
    /\ \A t \in Threads : (thr[t].pc = "m_lock") ~> (thr[t].pc = "done")
    /\ (cache.mu /= "unlocked") ~> (cache.mu = "unlocked")

----------------------------------------------------------------------------
\* Claims about persistence.

\* a step that puts a new file in the place of the snapshot
IsSave == cache'.disk /= cache.disk /\ cache'.disk /= <<>>

\* a step that is a new process loading the snapshot
IsLoad == ops' = ops + 1 /\ last'.op = "Load"

\* the keys the cache holds
Held(c) == {k \in DOMAIN c.entries : c.entries[k] /= <<>>}

\* what is on disk, as a map
OnDisk(c) == IF c.disk = <<>> THEN <<>> ELSE c.disk[1].data

\* the entries of a snapshot that have not expired at t
Live(data, t) == {k \in DOMAIN data : t < data[k].ExpiresAt}

C15_SaveStep ==
    IsSave =>
        LET data == cache'.disk[1].data
        IN /\ DOMAIN data = Held(cache)
           /\ \A k \in Held(cache) : data[k] = cache.entries[k][1].entry

C15_LoadStep ==
    IsLoad =>
        LET data == OnDisk(cache)
        IN /\ Held(cache') = Live(data, now)
           /\ \A k \in Live(data, now) :
                 /\ cache'.entries[k][1].key = k
                 /\ cache'.entries[k][1].entry = data[k]
                 /\ cache'.entries[k][1].sizeBytes = data[k].SizeBytes
           /\ Len(cache'.lruList) = Cardinality(Live(data, now))
           /\ \A i \in 1..Len(cache'.lruList) :
                 cache'.entries[cache'.lruList[i].key] = <<cache'.lruList[i]>>

\* C15: saving a cache and loading the snapshot into a fresh instance yields
\* exactly the entries that are not expired at load time (now < expiresAt),
\* each with the same key, content, timestamps, access count and size; the
\* entries whose expiresAt has passed are dropped without an error.
C15_RoundTrip == [][C15_SaveStep /\ C15_LoadStep]_vars

\* two entries were saved, one read once more before the Save; the new
\* process loaded the one that had not expired and dropped the other
C15_Witness ==
    /\ last.op = "Load"
    /\ DOMAIN OnDisk(cache) = {KeyA, KeyB}
    /\ Held(cache) = {KeyB}
    /\ cache.entries[KeyB][1].entry.AccessCount = 2
    /\ now = OnDisk(cache)[KeyA].ExpiresAt

C16_State == cache.disk = <<>> \/ Complete(cache.disk[1])

C16_Step ==
    \/ cache'.disk = cache.disk
    \/ cache'.disk = <<>>
    \/ cache'.disk = <<File(encode(cache), FileLen(encode(cache)))>>

\* C16: the persistence write is atomic with respect to crashes: wherever
\* Save stops, the file at the snapshot's path is absent, or the complete
\* previous snapshot, or the complete new one, never a partly written one.
C16_AtomicSave == []C16_State /\ [][C16_Step]_vars

\* the process stopped while Save was writing: the new process found the
\* previous snapshot whole and loaded it, the partly written temporary file
\* beside it
C16_Witness ==
    /\ last.op = "Load"
    /\ cache.saving = "none"
    /\ cache.tmp /= <<>> /\ ~Complete(cache.tmp[1]) /\ cache.tmp[1].n > 0
    /\ cache.disk /= <<>> /\ cache.disk[1].data /= cache.tmp[1].data
    /\ Held(cache) = DOMAIN cache.disk[1].data
    /\ Held(cache) /= {}

----------------------------------------------------------------------------
\* Claims about expiry, keys, Clear and InvalidatePattern.

C17_GetStep ==
    \A k \in Keys :
        IsGet(k) =>
            /\ last'.ok =>
                  /\ cache.entries[k] /= <<>>
                  /\ now < cache.entries[k][1].entry.ExpiresAt
            /\ (cache.entries[k] /= <<>> /\ now >= cache.entries[k][1].entry.ExpiresAt) =>
                  /\ ~last'.ok
                  /\ cache'.entries[k] = <<>>
                  /\ cache'.stats.Misses = cache.stats.Misses + 1
                  /\ cache'.stats.Hits = cache.stats.Hits

\* C17: an entry is visible to Get only while now < expiresAt: at every time
\* now >= expiresAt, the instant now = expiresAt included, Get treats the
\* entry as absent, returns not-found and counts a miss.
C17_VisibleOnlyBeforeExpiry == [][C17_GetStep]_vars

\* C18: GenerateChatKey gives equal inputs the same key, and two inputs that
\* differ in a field of a message or in an option different keys.
C18_KeysTellInputsApart ==
    (keyObs.a = keyObs.b) <=> (keyObs.ka = keyObs.kb)

\* the same, for inputs whose strings are valid UTF-8 and whose numbers are
\* finite
WellFormed(x) ==
    /\ \A f \in FloatFields : ~unsupported(x.options[f])
    /\ LET strings ==
               {x.options[f] : f \in TextFields}
                   \cup {x.options.Stop[i] : i \in 1..Len(x.options.Stop)}
                   \cup UNION {{x.messages[i][f] : f \in MessageFields} :
                                  i \in 1..Len(x.messages)}
       IN  \A s \in strings : jsonString(s) = s

C18_WellFormedKeys ==
    WellFormed(keyObs.a) /\ WellFormed(keyObs.b)
        => ((keyObs.a = keyObs.b) <=> (keyObs.ka = keyObs.kb))

IsClear == ops' = ops + 1 /\ last'.op = "Clear"

\* what Clear does reset: entries, list, size, the eviction counter, the file
ClearedButHits ==
    /\ \A k \in Keys : cache'.entries[k] = <<>>
    /\ cache'.lruList = <<>>
    /\ cache'.currentSize = 0
    /\ cache'.stats.Evictions = 0
    /\ cache'.persistPath => cache'.disk = <<>>

\* C19: after Clear the cache holds no entries, its size is 0, its counters of
\* hits, misses and evictions are 0 and no snapshot is on disk.
C19_ClearStep ==
    IsClear => /\ ClearedButHits
               /\ cache'.stats.Hits = 0
               /\ cache'.stats.Misses = 0

C19_ClearResetsAll == [][C19_ClearStep]_vars

C19_ClearResetsButHits == [][IsClear => ClearedButHits]_vars

IsInvalidate(p) == ops' = ops + 1 /\ last'.op = "InvalidatePattern" /\ last'.key = p

\* the step removes exactly the keys of gone, leaves every other entry and the
\* order of the list as they were, and returns how many it removed
Invalidated(gone) ==
    /\ \A k \in gone : cache'.entries[k] = <<>>
    /\ \A k \in Keys \ gone : cache'.entries[k] = cache.entries[k]
    /\ cache'.lruList = SelectSeq(cache.lruList, LAMBDA n : n.key \notin gone)
    /\ last'.count = Cardinality(gone)
    /\ cache'.stats = cache.stats

\* C20 as stated: for every prefix, the empty one included, InvalidatePattern
\* removes exactly the entries whose key starts with it, leaves the others
\* unchanged and returns the number removed.
C20_EveryPrefixStep ==
    \A p \in Patterns :
        IsInvalidate(p) =>
            Invalidated({k \in PresentKeys(cache) : HasPrefix(k, p)})

C20_InvalidateEveryPrefix == [][C20_EveryPrefixStep]_vars

\* C20, amended: for every prefix that is not empty InvalidatePattern removes
\* exactly the entries whose key starts with it, leaves the others unchanged
\* and returns the number removed; for the empty prefix it removes nothing and
\* returns 0.
C20_NonEmptyPrefixStep ==
    \A p \in Patterns :
        IsInvalidate(p) =>
            Invalidated({k \in PresentKeys(cache) : p /= <<>> /\ HasPrefix(k, p)})

C20_InvalidateNonEmptyPrefix == [][C20_NonEmptyPrefixStep]_vars

\* a prefix has removed one entry and left the one that does not start with it
C20_Witness ==
    /\ last.op = "InvalidatePattern"
    /\ last.key = <<"a">>
    /\ last.count = 1
    /\ PresentKeys(cache) = {KeyC}

----------------------------------------------------------------------------
\* Claims about the client's retries, rate limiting and streams.

\* a step that is a network attempt of Chat by t, and what it came back with
IsAttempt(t) == thr[t].pc = "c_attempt" /\ http'.requests = http.requests + 1
Outcome(t) == thr'[t].tr[Len(thr'[t].tr)]

\* retryable, as stated: errors of the connection, the deadline, and the
\* statuses 408, 429 and 5xx
StatedRetryable(err) ==
    err \in {ErrConnect, ErrDeadline, "408", "429", "500", "501", "502", "503", "504"}

\* retryable, as the client has it: the deadline, 429 and the configured codes
CodedRetryable(err) ==
    err \in {ErrDeadline, "429"} \cup client.retryConfig.RetryableHTTPCodes

\* the attempt failed with retries left: Chat goes to sleep for the backoff
\* exactly when retryable holds of the error, and returns the error otherwise
Classifies(t, retryable) ==
    (IsAttempt(t) /\ Outcome(t).err /= "nil" /\ thr[t].attempt < client.retryConfig.MaxRetries)
        => IF retryable THEN thr'[t].pc = "c_backoff"
           ELSE thr'[t].pc = "done" /\ thr'[t].res = Outcome(t).err

\* C21: the retry controller takes as retryable exactly the errors of the
\* connection, deadline-exceeded and the statuses 408, 429 and 5xx; every
\* other error is not retried.
C21_ClassifyStep == Classifies("t1", StatedRetryable(Outcome("t1").err))

C21_RetryableExactly == [][C21_ClassifyStep]_vars

C21_RetryableAsCoded == [][Classifies("t1", CodedRetryable(Outcome("t1").err))]_vars

\* the attempt of this step is the last one allowed, and it and all before it
\* failed with errors the client retries
Exhausted(t) ==
    /\ IsAttempt(t)
    /\ Len(thr'[t].tr) = client.retryConfig.MaxRetries + 1
    /\ \A i \in 1..Len(thr'[t].tr) : isRetryableError(client, thr'[t].tr[i].err)

\* C22: when all maxRetries+1 attempts of a Chat fail with retryable errors,
\* Chat returns the error of the last attempt as it is and stores nothing in
\* the cache.
C22_ExhaustedStep ==
    Exhausted("t1") =>
        /\ thr'["t1"].pc = "done"
        /\ thr'["t1"].res = Outcome("t1").err
        /\ thr'["t1"].resp = NilResponse
        /\ cache' = cache
        /\ callObs'.stored = callObs.stored

C22_LastErrorVerbatim == [][C22_ExhaustedStep]_vars

\* four attempts that failed with 500: Chat has returned 500, the cache is empty
C22_Witness ==
    /\ ChatDone(thr["t1"])
    /\ Len(thr["t1"].tr) = client.retryConfig.MaxRetries + 1
    /\ \A i \in 1..Len(thr["t1"].tr) : thr["t1"].tr[i] = Failure("500")
    /\ thr["t1"].res = "500"
    /\ http.requests = client.retryConfig.MaxRetries + 1
    /\ \A k \in DOMAIN cache.entries : cache.entries[k] = <<>>

\* where a call sends its request, or sleeps between two of them
Sending == {"c_attempt", "c_backoff", "s_open"}

\* t comes to the point of sending a request only out of a Wait that has
\* returned nil, and sends requests only from there
ThroughLimiter(t) ==
    /\ (thr[t].pc \notin Sending /\ thr'[t].pc \in Sending)
           => thr[t].pc = "w_done" /\ thr[t].res = "nil"
    /\ (thr'[t] /= thr[t] /\ http'.requests /= http.requests
           /\ thr[t].fn \in {"Chat", "Query", "ChatStream", "StreamQuery"})
           => thr[t].pc \in Sending

\* C23: every call that sends a request to the service (Chat on a cache miss,
\* ChatStream, StreamQuery) has first completed a successful Wait of the rate
\* limiter.
C23_LimiterStep == \A t \in Threads : ThroughLimiter(t)

C23_EveryRequestLimited == [][C23_LimiterStep]_vars

C23_LimitedButStreamQuery ==
    [][\A t \in Threads : thr'[t].fn /= "StreamQuery" => ThroughLimiter(t)]_vars

\* a step in which t's call asks for the stream, and the error it got
IsOpen(t) == thr[t].pc = "s_open" /\ http'.requests = http.requests + 1
OpenFailed(err) == stream'.ret = "failed to create stream: " \o err

\* C24: when establishing the stream fails with a retryable error, ChatStream
\* retries with backoff, up to maxRetries times, before it reports the failure.
C24_OpenStep ==
    \A err \in {e \in AttemptErrors : isRetryableError(client, e)} :
        (/\ IsOpen("t1") /\ thr["t1"].fn = "ChatStream" /\ OpenFailed(err)
         /\ thr["t1"].attempt < client.retryConfig.MaxRetries)
            => thr'["t1"].pc /= "done"

C24_StreamConnectRetried == [][C24_OpenStep]_vars

\* a step in which ProcessStreamWithCallback takes a chunk from the channel
IsRead(t) == thr[t].pc = "s_read" /\ stream'.delivered /= stream.delivered

\* the texts of the content chunks of a sequence of chunks, in order
RECURSIVE Contents(_)
Contents(chunks) ==
    IF chunks = <<>> THEN <<>>
    ELSE IF Terminal(Head(chunks)) THEN Contents(Tail(chunks))
    ELSE <<Head(chunks).Content>> \o Contents(Tail(chunks))

C25_ReadStep ==
    IsRead("t1") =>
        LET chunk == Head(stream.chunks)
        IN  IF chunk.Error /= "nil"
            THEN /\ thr'["t1"].pc = "done"
                 /\ thr'["t1"].res \in {chunk.Error, "stream error: " \o chunk.Error}
                 /\ stream'.called = stream.called
            ELSE IF chunk.Done
            THEN /\ thr'["t1"].pc = "done"
                 /\ thr'["t1"].res = "nil"
                 /\ stream'.called = stream.called
            ELSE /\ thr'["t1"].pc = "s_read"
                 /\ stream'.called = Append(stream.called, chunk.Content)

\* the callback has been called with the content chunks taken so far, in the
\* order of their delivery, and no chunk was taken after a terminal one
C25_State ==
    (thr["t1"].fn = "StreamQuery" /\ thr["t1"].pc \in {"s_read", "done"}
        /\ stream.ret = "nil")
        => /\ stream.called = Contents(stream.delivered)
           /\ \A i \in 1..(Len(stream.delivered) - 1) : ~Terminal(stream.delivered[i])
           /\ thr["t1"].pc = "s_read" =>
                 \A i \in 1..Len(stream.delivered) : ~Terminal(stream.delivered[i])

\* C25: ProcessStreamWithCallback calls the callback once for each content
\* chunk, in the order of delivery, stops at the first terminal chunk without
\* calling the callback after it, returns nil on a done chunk and an error
\* carrying the chunk's error on an error chunk.
C25_CallbackAdapter == []C25_State /\ [][C25_ReadStep]_vars

\* two content chunks were handed to the callback in order, then the error
\* chunk of the source ended the call
C25_Witness ==
    /\ thr["t1"].fn = "StreamQuery" /\ thr["t1"].pc = "done"
    /\ stream.called = <<"a", "b">>
    /\ stream.delivered = <<ContentChunk("a"), ContentChunk("b"), ErrorChunk(ErrSource)>>
    /\ thr["t1"].res = "stream error: " \o ErrSource

\* t is about to store a response that Set refuses for its size
StoreFails(t) ==
    /\ thr[t].pc \in {"c_store", "q_store"}
    /\ client.cacheEnabled
    /\ SetResult(cache, KeyA, NewEntry(thr[t].resp, now), CfgTTL, now).err

\* C26: when the network call of Chat or Query has succeeded and Cache.Set
\* fails, the call still returns the response with a nil error.
C26_StoreStep ==
    (StoreFails("t1") /\ thr'["t1"].pc /= thr["t1"].pc) =>
        /\ cache' = cache
        /\ thr'["t1"].resp = thr["t1"].resp
        /\ \/ thr'["t1"].pc = "done" /\ thr'["t1"].res = "nil"
           \/ /\ thr["t1"].fn = "Query" /\ thr["t1"].pc = "c_store"
              /\ thr'["t1"].pc = "q_store"

C26_FailedStoreSwallowed == [][C26_StoreStep]_vars

\* Query has returned a response that is larger than the cache, with a nil
\* error, after one request; nothing is cached
C26_Witness ==
    /\ thr["t1"].fn = "Query" /\ thr["t1"].pc = "done"
    /\ thr["t1"].res = "nil"
    /\ thr["t1"].resp = RespHuge
    /\ http.requests = 1
    /\ \A k \in DOMAIN cache.entries : cache.entries[k] = <<>>

----------------------------------------------------------------------------
\* Claims about Set's capacity error and Get's counters.

\* a step that is a Set of an entry larger than the whole cache
IsSetTooLarge ==
    IsSet /\ calculateEntrySize(NewEntry(last'.resp, now)) > cache.maxSizeBytes

\* C27: Set of an entry whose size exceeds maxSizeBytes returns a capacity
\* error and leaves the cache as it was: no entry inserted, removed or
\* evicted, the entry under the same key kept, currentSize and the eviction
\* counter unchanged.
C27_SetStep ==
    IsSetTooLarge =>
        /\ ~last'.ok
        /\ last'.evicted = {}
        /\ cache'.entries = cache.entries
        /\ cache'.lruList = cache.lruList
        /\ cache'.currentSize = cache.currentSize
        /\ cache'.stats = cache.stats

C27_TooLargeRejected == [][C27_SetStep]_vars

\* a Set of too large an entry was refused for a key that holds an entry,
\* which is still there, as is the entry of another key
C27_Witness ==
    /\ last.op = "Set" /\ ~last.ok /\ last.resp = RespHuge
    /\ last.key = KeyA
    /\ PresentKeys(cache) = {KeyA, KeyB}
    /\ cache.entries[KeyA][1].entry.Response = RespBig

\* the key holds an entry that has not expired: as stated, while
\* now < expiresAt; as Get has it, until now is after expiresAt
StatedLive(k) ==
    cache.entries[k] /= <<>> /\ now < cache.entries[k][1].entry.ExpiresAt
CodedLive(k) ==
    cache.entries[k] /= <<>> /\ ~(now > cache.entries[k][1].entry.ExpiresAt)

\* what a Get(k) does to recency and the counters, on an entry that is live
\* and on a key that is missing or expired
GetCounts(k, live) ==
    IsGet(k) =>
        IF live
        THEN /\ last'.ok
             /\ ListKeys(cache'.lruList) =
                    <<k>> \o SelectSeq(ListKeys(cache.lruList), LAMBDA x : x /= k)
             /\ cache'.entries[k][1].entry.AccessCount =
                    cache.entries[k][1].entry.AccessCount + 1
             /\ cache'.stats = [cache.stats EXCEPT !.Hits = @ + 1]
        ELSE /\ ~last'.ok
             /\ cache'.stats = [cache.stats EXCEPT !.Misses = @ + 1]
             /\ \A x \in Keys \ {k} : cache'.entries[x] = cache.entries[x]

\* only Get moves the sum of hits and misses, and by one
CountsGets ==
    cache'.stats.Hits + cache'.stats.Misses =
        cache.stats.Hits + cache.stats.Misses + (IF \E k \in Keys : IsGet(k) THEN 1 ELSE 0)

\* C28: Get on a live entry moves it to the most recently used position and
\* adds one to its accessCount and to the hit counter; Get on a missing or
\* expired key adds one to the miss counter only and returns not-found; so
\* hits + misses is the number of Get calls made.
C28_GetStep == CountsGets /\ \A k \in Keys : GetCounts(k, StatedLive(k))

C28_GetCounters == [][C28_GetStep]_vars

C28_GetCountersAsCoded == [][CountsGets /\ \A k \in Keys : GetCounts(k, CodedLive(k))]_vars

----------------------------------------------------------------------------
\* Claims about cancellation.

\* a step in which t's Wait comes out of one of its two selects and returns
WaitUnblocks(t) == thr[t].pc \in {"w_window", "w_interval"} /\ thr'[t].pc = "w_done"

\* C29: a Wait that is cancelled while blocked, for the window or for the
\* minimum interval, returns the cancellation error and neither increments
\* requestCount nor updates lastRequestTime.
C29_CancelStep ==
    \A t \in Threads :
        /\ (WaitUnblocks(t) /\ thr[t].ctx /\ now < thr[t].timer)
               => thr'[t].res = "cancelled"
        /\ (WaitUnblocks(t) /\ thr'[t].res = "cancelled")
               => /\ thr[t].ctx
                  /\ rl'.requestCount = rl.requestCount
                  /\ rl'.lastRequestTime = rl.lastRequestTime
                  /\ rl'.windowStart = rl.windowStart
                  /\ waitObs' = waitObs

C29_CancelledWaitCountsNothing == [][C29_CancelStep]_vars

\* a Wait blocked for the minimum interval after an earlier request was
\* cancelled and has returned the error; the one request is all that is counted
C29_Witness ==
    \E t \in Threads :
        /\ thr[t].pc = "w_done" /\ thr[t].fn = "Wait"
        /\ thr[t].res = "cancelled" /\ ~thr[t].pre
        /\ rl.requestCount = 1
        /\ rl.lastRequestTime /= NoTime
        /\ rl.mu = "unlocked"

\* a step in which t's Chat leaves the sleep between two attempts
BackoffEnds(t) == thr[t].pc = "c_backoff" /\ thr'[t].pc /= "c_backoff"

\* C30: when the caller cancels during a backoff sleep of Chat, Chat returns
\* the cancellation error without waiting out the delay, makes no further
\* network attempt and inserts no cache entry.
C30_BackoffStep ==
    /\ (BackoffEnds("t1") /\ thr["t1"].ctx /\ now < thr["t1"].timer)
           => /\ thr'["t1"].pc = "done"
              /\ thr'["t1"].res = ErrCanceled
    /\ (BackoffEnds("t1") /\ thr'["t1"].pc = "done")
           => /\ thr["t1"].ctx
              /\ thr'["t1"].res = ErrCanceled
              /\ thr'["t1"].resp = NilResponse
              /\ thr'["t1"].tr = thr["t1"].tr
              /\ http' = http
              /\ cache' = cache
              /\ callObs'.stored = callObs.stored

C30_CancelledBackoff == [][C30_BackoffStep]_vars

\* one attempt failed with 500, the caller cancelled during the sleep before
\* any time had passed: Chat has returned the cancellation, one request was
\* made, nothing is cached
C30_Witness ==
    /\ ChatDone(thr["t1"])
    /\ thr["t1"].tr = <<Failure("500")>>
    /\ thr["t1"].res = ErrCanceled
    /\ thr["t1"].ctx /\ ~thr["t1"].pre
    /\ http.requests = 1
    /\ now = 0
    /\ \A k \in DOMAIN cache.entries : cache.entries[k] = <<>>

----------------------------------------------------------------------------
\* Claims about the metrics collector.

\* a <= b, for two whole numbers written in bits without leading zeros
BitsLeq(a, b) ==
    \/ Len(a) < Len(b)
    \/ /\ Len(a) = Len(b)
       /\ \/ a = b
          \/ \E i \in 1..Len(a) : a[i] < b[i] /\ \A j \in 1..(i - 1) : a[j] = b[j]

\* f is x / d up to the given number of units of f's last bit (x, d whole, d > 0)
WithinUnits(f, x, d, units) ==
    LET scaled == Bits(x) \o Zeros(0 - f.exp)
    IN  /\ f.exp <= 0
        /\ BitsLeq(MulAdd(f.mant, d, 0), MulAdd(scaled, 1, units * d))
        /\ BitsLeq(scaled, MulAdd(f.mant, d, units * d))

\* C31: what GetCacheHitRate returns after any hits and misses is 0 when none
\* was recorded, and otherwise the percentage 100 * hits / (hits + misses) as
\* float64 holds it: 0 for no hit, else within two units of the last bit of the
\* value returned, and exactly 60 after 3 hits and 2 misses
C31_HitRate ==
    LET hits   == metrics.cacheHits
        misses == metrics.cacheMisses
    IN  metrics.rate /= <<>> =>
            /\ hits = 0 => metrics.rate[1] = Zero
            /\ hits > 0 => WithinUnits(metrics.rate[1], 100 * hits, hits + misses, 2)
            /\ (hits = 3 /\ misses = 2) => metrics.rate[1] = Float64(60)

\* the rate has been asked for after 3 hits and 2 misses, and is 60
C31_Witness ==
    /\ metrics.cacheHits = 3
    /\ metrics.cacheMisses = 2
    /\ metrics.rate = <<Float64(60)>>

\* the durations of the calls in a log, and their least, greatest and sum
DurationsIn(log) == {log[i].duration : i \in 1..Len(log)}
Least(S) == CHOOSE d \in S : \A e \in S : d <= e
Greatest(S) == CHOOSE d \in S : \A e \in S : d >= e

RECURSIVE TotalOf(_)
TotalOf(log) == IF log = <<>> THEN 0 ELSE log[1].duration + TotalOf(Tail(log))

ErrorsIn(log) == Cardinality({i \in 1..Len(log) : log[i].err /= "nil"})

\* the least duration as RecordAPICall and RecordDuration keep it: a least
\* duration of 0 is taken for no duration yet, so the count starts again after
\* the last call that took no time
LeastAsCoded(log) ==
    LET zeros == {i \in 1..Len(log) : log[i].duration = 0}
        from  == IF zeros = {} THEN 1 ELSE Greatest(zeros) + 1
    IN  IF from > Len(log) THEN 0 ELSE Least(DurationsIn(SubSeq(log, from, Len(log))))

\* what the collector holds for the endpoints and operations agrees with the
\* calls made, the least duration being least(log)
Recorded(least(_)) ==
    /\ DOMAIN metrics.apiCalls = DOMAIN metrics.apiLog
    /\ DOMAIN metrics.durations = DOMAIN metrics.durLog
    /\ \A e \in DOMAIN metrics.apiLog :
           LET log == metrics.apiLog[e]
               a   == metrics.apiCalls[e]
           IN  /\ a.Count = Len(log)
               /\ a.Errors = ErrorsIn(log)
               /\ a.MinDuration = least(log)
               /\ a.MaxDuration = Greatest(DurationsIn(log))
    /\ \A o \in DOMAIN metrics.durLog :
           LET log == metrics.durLog[o]
               d   == metrics.durations[o]
           IN  /\ d.Count = Len(log)
               /\ d.Min = least(log)
               /\ d.Max = Greatest(DurationsIn(log))
               /\ d.Total = TotalOf(log)
               /\ d.Average = d.Total \div d.Count

LeastIn(log) == Least(DurationsIn(log))

\* C40: after any calls of RecordAPICall and RecordDuration with durations of 0
\* or more, every endpoint's Count is the number of its calls, Errors the
\* number of them with an error, MinDuration and MaxDuration the least and the
\* greatest duration recorded, and every operation's Min, Max and Average =
\* Total / Count likewise
C40_Recorded == Recorded(LeastIn)

\* the same with the least duration as the code keeps it
C40_RecordedAsCoded == Recorded(LeastAsCoded)

----------------------------------------------------------------------------
\* Claims about the cache's invariants.

\* the sizes recorded in the nodes of a list, added up
RECURSIVE SizeOfNodes(_)
SizeOfNodes(list) == IF list = <<>> THEN 0 ELSE list[1].sizeBytes + SizeOfNodes(Tail(list))

\* map and list hold the same entries, a node each, and currentSize is the sum
\* of the sizes recorded in the nodes
MapListSize(c) ==
    /\ \A k \in DOMAIN c.entries :
           c.entries[k] /= <<>> =>
               /\ c.entries[k][1].key = k
               /\ Cardinality({i \in 1..Len(c.lruList) : c.lruList[i].key = k}) = 1
               /\ \E i \in 1..Len(c.lruList) : c.lruList[i] = c.entries[k][1]
    /\ \A i \in 1..Len(c.lruList) :
           /\ c.lruList[i].key \in DOMAIN c.entries
           /\ c.entries[c.lruList[i].key] = <<c.lruList[i]>>
    /\ c.currentSize = SizeOfNodes(c.lruList)
    /\ c.currentSize >= 0

\* C32: in every state that Set, Get, Delete, Clear, InvalidatePattern and the
\* sweep lead to, the map and the recency list hold the same entries (one node
\* for each key, none twice, none left over), currentSize is the sum of the
\* sizes recorded in the nodes, and it is never negative
C32_MapListSize == MapListSize(cache)

\* two entries are held after a Set that evicted a third, the clock having
\* moved on since the cache was made
C32_Witness ==
    /\ last.op = "Set" /\ last.ok /\ last.evicted /= {}
    /\ Len(cache.lruList) = 2
    /\ cache.currentSize = SizeOfNodes(cache.lruList)
    /\ now > 0

\* C33: after Load, at construction from a snapshot written under any
\* configuration or called on a cache that already holds entries, currentSize
\* is at most maxSizeBytes, the map and the list hold the same entries, a node
\* each, and currentSize is the sum of the nodes' sizes
C33_LoadKeepsInvariants ==
    last.op = "Load" => MapListSize(cache) /\ cache.currentSize <= cache.maxSizeBytes

\* what Load does keep: every entry of the map is a node of the list, and
\* currentSize is the sum of the sizes of the list's nodes
C33_LoadAsCoded ==
    last.op = "Load" =>
        /\ \A k \in DOMAIN cache.entries :
               cache.entries[k] /= <<>> =>
                   \E i \in 1..Len(cache.lruList) : cache.lruList[i] = cache.entries[k][1]
        /\ cache.currentSize = SizeOfNodes(cache.lruList)

\* the same configuration before and after, and nothing held when Load is
\* called: the invariants are kept
C33_LoadSameConfiguration ==
    (last.op = "Load" /\ last.count = 0) =>
        MapListSize(cache) /\ cache.currentSize <= cache.maxSizeBytes

----------------------------------------------------------------------------
\* Claims about the limiter's window.

\* a step in which t's Wait returns nil
WaitSucceeds(t) == thr[t].pc /= "w_done" /\ thr'[t].pc = "w_done" /\ thr'[t].res = "nil"

\* the window is started again in this step
WindowReset == rl'.windowStart /= rl.windowStart

C34_WaitStep ==
    /\ \A t \in Threads :
           /\ WaitSucceeds(t) =>
                  rl'.requestCount = (IF WindowReset THEN 0 ELSE rl.requestCount) + 1
           /\ (thr[t].pc = "w_window" /\ thr'[t].pc /= "w_window") =>
                  \/ thr'[t].res = "cancelled" /\ rl'.requestCount = rl.requestCount
                  \/ /\ now - rl.windowStart >= Minute
                     /\ rl'.windowStart = now
                     /\ rl'.requestCount <= 1
    /\ (\A t \in Threads : ~WaitSucceeds(t)) =>
           rl'.requestCount = (IF WindowReset THEN 0 ELSE rl.requestCount)

\* C34: requestCount never exceeds requestsPerMin: it is the number of Wait
\* calls that succeeded since the window was last started again, and a Wait
\* that finds it at the limit blocks until the window is over and started
\* again before it is counted (or returns cancelled, uncounted)
C34_WindowCount ==
    /\ [](rl.requestCount <= rl.requestsPerMin)
    /\ [][C34_WaitStep]_vars

\* the window has been started again, the count is at the limit once more, and
\* a Wait that found it there is blocked
C34_Witness ==
    /\ rl.windowStart > 0
    /\ rl.requestCount = rl.requestsPerMin
    /\ \E t \in Threads : thr[t].pc = "w_window"

\* t's context is cancelled while t waits for r.mu, which the other caller
\* holds, blocked in a select whose timer has not fired
QueuedCancelled(t) ==
    /\ thr[t].pc = "w_lock" /\ thr[t].ctx /\ ~thr[t].pre
    /\ \E u \in Threads \ {t} :
           /\ rl.mu = u
           /\ thr[u].pc \in {"w_window", "w_interval"}
           /\ now < thr[u].timer

\* C35: a caller whose context is cancelled while it is queued behind a caller
\* blocked inside Wait returns the cancellation error, whether or not the
\* other caller's timer ever fires
C35_QueuedCallerInterruptible ==
    \A t \in Threads :
        QueuedCancelled(t) ~> (thr[t].pc = "w_done" /\ thr[t].res = "cancelled")

\* a cancelled caller that is inside one of Wait's selects does return
C35_BlockedCallerReturns ==
    \A t \in Threads :
        (thr[t].pc \in {"w_window", "w_interval"} /\ thr[t].ctx) ~> (thr[t].pc = "w_done")

----------------------------------------------------------------------------
\* Claims about the stream's producer.

\* the caller has cancelled a stream whose producer goroutine is running
CancelledActive == stream.state = "open" /\ stream.ctx /\ stream.pc /= "exit"

\* the goroutine has returned and the deferred close has run
ProducerExited == stream.pc = "exit" /\ stream.closes = 1

\* C36: after the caller cancels an active stream the producer goroutine
\* always terminates: it closes the channel and exits, also when the consumer
\* has stopped reading and the channel's buffer is full
C36_ProducerTerminates == CancelledActive ~> ProducerExited

\* with a consumer that keeps reading, the producer of a cancelled stream does
\* terminate
C36_ProducerTerminatesWhileRead ==
    (stream.state = "open" /\ stream.ctx) ~> ProducerExited

\* the deltas of a source that carry text, in order
RECURSIVE WithText(_)
WithText(deltas) ==
    IF deltas = <<>> THEN <<>>
    ELSE IF Head(deltas) = "" THEN WithText(Tail(deltas))
    ELSE <<Head(deltas)>> \o WithText(Tail(deltas))

\* the deltas the goroutine has read from the source so far
ReadSoFar == SubSeq(stream.source, 1, Len(stream.source) - Len(stream.src))

\* the chunks the goroutine has produced: those sent, and the one it is sending
Produced == Sent \o (IF stream.pc = "send" THEN <<stream.pending>> ELSE <<>>)

IsPrefix(s, t) == Len(s) <= Len(t) /\ s = SubSeq(t, 1, Len(s))

\* C37: the content chunks on the channel are the deltas with text of the
\* source, one chunk each, in the order the source yielded them: all of those
\* read so far while the stream is not cancelled, a prefix of them once it is;
\* a delta without text produces no chunk and no error, the only error chunks
\* being the source's own error and the cancellation
C37_ContentChunks ==
    (stream.state = "open" /\ stream.ret = "nil") =>
        /\ IsPrefix(Contents(Produced), WithText(stream.source))
        /\ ~stream.ctx => Contents(Produced) = WithText(ReadSoFar)
        /\ \A i \in 1..Len(Produced) :
               Produced[i].Error /= "nil" =>
                   \/ Produced[i].Error = stream.srcErr /\ stream.src = <<>>
                   \/ Produced[i].Error = ErrCanceled /\ stream.ctx
        /\ (stream.pc = "exit" /\ ~stream.ctx /\ stream.srcErr = "nil") =>
               Produced = [i \in 1..Len(WithText(stream.source)) |->
                              ContentChunk(WithText(stream.source)[i])] \o <<DoneChunk>>

\* a source whose second delta has no text, read to its end: two content
\* chunks and the done chunk
C37_Witness ==
    /\ stream.source = <<"a", "", "b">>
    /\ stream.pc = "exit" /\ ~stream.ctx /\ stream.srcErr = "nil"
    /\ stream.delivered = <<ContentChunk("a"), ContentChunk("b"), DoneChunk>>

----------------------------------------------------------------------------
\* Claims about the cache hit of Chat.

\* the entry Chat's lookup finds for t's call: held under the call's key and
\* not expired, or none
CachedFor(t) ==
    LET held == cache.entries[GenerateChatKey(thr[t].msgs, thr[t].opts)]
    IN IF held /= <<>> /\ now <= held[1].entry.ExpiresAt THEN held ELSE <<>>

\* t's call of Chat is at its lookup, and the lookup is a hit
ChatHit(t) ==
    /\ thr[t].fn = "Chat" /\ thr[t].pc = "c_lookup"
    /\ client.cacheEnabled
    /\ CachedFor(t) /= <<>>

\* what Set writes of an entry
Written(node) ==
    [Response |-> node.entry.Response, ExpiresAt |-> node.entry.ExpiresAt,
     PromptHash |-> node.entry.PromptHash, SizeBytes |-> node.entry.SizeBytes]

\* the step stores no entry, replaces none and removes none
NoEntryWritten ==
    /\ cache'.currentSize = cache.currentSize
    /\ Len(cache'.lruList) = Len(cache.lruList)
    /\ \A k \in DOMAIN cache.entries :
           IF cache.entries[k] = <<>> THEN cache'.entries[k] = <<>>
           ELSE /\ cache'.entries[k] /= <<>>
                /\ Written(cache'.entries[k][1]) = Written(cache.entries[k][1])

C38_HitStep ==
    \A t \in Threads :
        (ChatHit(t) /\ thr'[t].pc /= thr[t].pc) =>
            /\ thr'[t].pc = "done"
            /\ thr'[t].res = "nil"
            /\ thr'[t].resp = CachedFor(t)[1].entry.Response
            /\ rl' = rl
            /\ http' = http
            /\ NoEntryWritten

\* C38: on a cache hit Chat returns the cached response at once, with no call
\* of RateLimiter.Wait and no network attempt: the limiter's requestCount and
\* lastRequestTime are as they were, and no entry of the cache is written
C38_HitReturnsCached == [][C38_HitStep]_vars

\* a second call of Chat has been answered from the cache: one request was
\* made and counted, by the first call
C38_Witness ==
    /\ thr["t1"].fn = "Chat" /\ thr["t1"].pc = "done" /\ thr["t1"].res = "nil"
    /\ thr["t1"].calls = 2
    /\ thr["t1"].resp = RespBig
    /\ cache.stats.Hits = 1
    /\ http.requests = 1
    /\ rl.requestCount = 1
    /\ thr["t1"].tr = <<>>

----------------------------------------------------------------------------
\* Claims about Close and the calls in flight.

Requesting == {"Chat", "Query", "ChatStream"}

\* a step of t's call of Chat, Query or ChatStream
CallStep(t) == thr'[t].fn \in Requesting /\ thr'[t].pc /= thr[t].pc

C39_ClosedStep ==
    CloseReturned =>
        \A t \in Threads :
            CallStep(t) =>
                /\ http'.requests = http.requests
                /\ thr[t].pc \in {"c_store", "q_store"} => cache' = cache

\* C39: once Close has returned no call of Chat, Query or ChatStream makes a
\* network request or stores an entry in the cache, the calls that were in
\* flight when Close started included
C39_NothingAfterClose == [][C39_ClosedStep]_vars

\* a call of Chat, Query or ChatStream that starts after Close has returned
\* is over at once with the closed error
C39_StartedAfterClose ==
    [][\A t \in Threads :
          (CloseReturned /\ thr[t].pc = "idle" /\ thr'[t].fn \in Requesting) =>
              /\ thr'[t].pc = "done" /\ thr'[t].res = ErrClosed
              /\ http' = http /\ cache' = cache]_vars

====
